---- MODULE Spec2Model ----
(***************************************************************************)
(* Model of the ai-pptx build pipeline: lib/build-presentation.cjs         *)
(* (buildPresentation, generateWhiskBackgrounds, generateFallbackBackground)*)
(* and lib/whisk-client.cjs (loadToken, generateImage,                     *)
(* generateWithReference, uploadAndAnalyze, saveBase64Image).              *)
(*                                                                         *)
(* One build is one run of buildPresentation.  The JavaScript is           *)
(* single-threaded: code between two awaits is one atomic step.  Remote    *)
(* calls are issued (added to inflight) and completed in separate steps;   *)
(* their responses, and the outcome of every disk operation, are chosen by *)
(* the environment.  Slide indices are 0-based as in the source; slide i   *)
(* is slides[i + 1] of the TLA+ sequence.                                  *)
(***************************************************************************)
EXTENDS Integers, Sequences, FiniteSets, TLC

\* ------------------------------------------------------------------ bounds
\* size of the input of one build: number of slides plus number of reference paths
MaxInput == 4
\* Date.now() when the credential is loaded
Now0 == 1000000
\* how long a build is followed in real time, in steps of five minutes
MaxElapsed == 1
\* number of calls a client caller makes with a ratio string
MaxRatioCalls == 1

\* ------------------------------------------------------- program constants
ExpiryBuffer == 300000

KnownTypes == {"title", "content", "data", "features", "closing"}

\* keys every object literal inherits from Object.prototype although it does
\* not define them; toString stands for them: a function that returns a string
InheritedKeys == {"toString"}

\* TEMPLATE_FNS[slideType] is truthy: own keys and inherited keys alike
HasTemplate(slideType) == slideType \in KnownTypes \cup InheritedKeys

\* slide types drawn for the inputs: one with a template and one without
SlideTypes == {"title", "quote"}

\* the same with a type that names an inherited key
ProtoTypes == SlideTypes \cup InheritedKeys

MODELS == [default |-> "IMAGEN_3_5", refSingle |-> "GEM_PIX", refMultiple |-> "R2I"]

\* the own keys of the aspect ratio table and their values
ASPECT_RATIO_MAP ==
  [r \in {"1:1", "16:9", "9:16", "4:3", "3:4", "IMAGE_ASPECT_RATIO_SQUARE",
          "IMAGE_ASPECT_RATIO_LANDSCAPE", "IMAGE_ASPECT_RATIO_PORTRAIT"} |->
     IF r \in {"1:1", "IMAGE_ASPECT_RATIO_SQUARE"} THEN "IMAGE_ASPECT_RATIO_SQUARE"
     ELSE IF r \in {"16:9", "4:3", "IMAGE_ASPECT_RATIO_LANDSCAPE"}
          THEN "IMAGE_ASPECT_RATIO_LANDSCAPE"
     ELSE "IMAGE_ASPECT_RATIO_PORTRAIT"]

\* ASPECT_RATIO_MAP[ratio] || 'IMAGE_ASPECT_RATIO_SQUARE': an inherited key
\* yields the inherited function, which is truthy and is returned
normalizeAspectRatio(ratio) ==
  IF ratio \in DOMAIN ASPECT_RATIO_MAP THEN ASPECT_RATIO_MAP[ratio]
  ELSE IF ratio \in InheritedKeys THEN "[Function: " \o ratio \o "]"
  ELSE "IMAGE_ASPECT_RATIO_SQUARE"

\* the ratio strings a caller of the client passes
RatioInputs == DOMAIN ASPECT_RATIO_MAP \cup {"21:9", "", "16x9"} \cup InheritedKeys

Category == "MEDIA_CATEGORY_STYLE"

\* the two generation operations of the client
GenOps == {"generateImage", "generateWithReference"}

\* ------------------------------------------------------------- data values
\* base64 payloads: the bytes of the k-th reference file, or the first image
\* returned by the generation call for slide i
FileData(k) == [src |-> "file", id |-> k]
GenData(i) == [src |-> "gen", id |-> i]
NoData == [src |-> "none", id |-> -1]

\* the media id the upload endpoint hands out for an uploaded payload
MediaIdOf(data) == [media |-> data]

\* the caption text the caption endpoint returns for a payload
CaptionOf(data) == IF data.src = "file" THEN "caption-of-file" ELSE "caption-of-image"

\* responses of a remote endpoint as seen by the client wrappers
Responses == {"neterr", "httperr", "nodata", "ok"}

\* states of a caller-supplied reference path on disk
RefStates == {"missing", "unreadable", "ok"}

RECURSIVE SeqsUpTo(_, _)
SeqsUpTo(S, n) ==
  IF n = 0 THEN {<<>>}
  ELSE LET shorter == SeqsUpTo(S, n - 1)
       IN shorter \cup {Append(s, x) : s \in {t \in shorter : Len(t) = n - 1}, x \in S}

\* the credential files the build may find at TOKEN_FILE
TokenFiles ==
  { [exists |-> FALSE, parses |-> FALSE, accessToken |-> "", expiresAt |-> 0],
    [exists |-> TRUE, parses |-> FALSE, accessToken |-> "", expiresAt |-> 0],
    [exists |-> TRUE, parses |-> TRUE, accessToken |-> "", expiresAt |-> Now0 + 3600000],
    [exists |-> TRUE, parses |-> TRUE, accessToken |-> "tok", expiresAt |-> 0],
    [exists |-> TRUE, parses |-> TRUE, accessToken |-> "tok", expiresAt |-> Now0 + ExpiryBuffer - 1],
    [exists |-> TRUE, parses |-> TRUE, accessToken |-> "tok", expiresAt |-> Now0 + ExpiryBuffer] }

NullToken == [ok |-> FALSE, accessToken |-> "", expiresAt |-> 0]

\* ------------------------------------------------------------ whisk-client
\* variant: the remaining lifetime of the credential is not checked
loadTokenAnyExpiry(file, t) ==
  IF ~file.exists THEN NullToken
  ELSE IF ~file.parses THEN NullToken
  ELSE IF file.accessToken = "" \/ file.expiresAt = 0 THEN NullToken
  ELSE [ok |-> TRUE, accessToken |-> file.accessToken, expiresAt |-> file.expiresAt]

\* variant: a credential with exactly five minutes left is refused
loadTokenStrictlyMore(file, t) ==
  IF ~file.exists THEN NullToken
  ELSE IF ~file.parses THEN NullToken
  ELSE IF file.accessToken = "" \/ file.expiresAt = 0 THEN NullToken
  ELSE IF file.expiresAt <= t + ExpiryBuffer THEN NullToken
  ELSE [ok |-> TRUE, accessToken |-> file.accessToken, expiresAt |-> file.expiresAt]

\* loadToken: every failure inside the try block ends in return null
loadToken(file, t) ==
  IF ~file.exists THEN NullToken
  ELSE IF ~file.parses THEN NullToken
  ELSE IF file.accessToken = "" \/ file.expiresAt = 0 THEN NullToken
  ELSE IF file.expiresAt < t + ExpiryBuffer THEN NullToken
  ELSE [ok |-> TRUE, accessToken |-> file.accessToken, expiresAt |-> file.expiresAt]

\* variant: the image list of the response is not checked for being empty
GenResultUnchecked(resp, data) ==
  IF resp = "ok" THEN [success |-> TRUE, images |-> <<data>>, error |-> ""]
  ELSE IF resp = "nodata" THEN [success |-> TRUE, images |-> <<>>, error |-> ""]
  ELSE [success |-> FALSE, images |-> <<>>,
        error |-> IF resp = "neterr" THEN "network"
                  ELSE IF resp = "httperr" THEN "HTTP"
                  ELSE "No image data in response"]

\* result of generateImage / generateWithReference for a response
GenResult(resp, data) ==
  IF resp = "ok" THEN [success |-> TRUE, images |-> <<data>>, error |-> ""]
  ELSE [success |-> FALSE, images |-> <<>>,
        error |-> IF resp = "neterr" THEN "network"
                  ELSE IF resp = "httperr" THEN "HTTP"
                  ELSE "No image data in response"]

\* variant: the media id of the response is not checked
UploadResultUnchecked(resp, data) ==
  IF resp \in {"ok", "nodata"}
  THEN [success |-> TRUE, mediaId |-> MediaIdOf(IF resp = "ok" THEN data ELSE NoData),
        error |-> ""]
  ELSE [success |-> FALSE, mediaId |-> MediaIdOf(NoData),
        error |-> IF resp = "neterr" THEN "network" ELSE "Upload HTTP"]

\* result of uploadReference for a response
UploadResult(resp, data) ==
  IF resp = "ok" THEN [success |-> TRUE, mediaId |-> MediaIdOf(data), error |-> ""]
  ELSE [success |-> FALSE, mediaId |-> MediaIdOf(NoData),
        error |-> IF resp = "neterr" THEN "network"
                  ELSE IF resp = "httperr" THEN "Upload HTTP"
                  ELSE "No Media ID returned"]

\* result of getCaptionForImage for a response
CaptionResult(resp, data) ==
  IF resp = "ok" THEN [success |-> TRUE, caption |-> CaptionOf(data), error |-> ""]
  ELSE IF resp = "nodata" THEN [success |-> TRUE, caption |-> "", error |-> ""]
  ELSE [success |-> FALSE, caption |-> "undefined",
        error |-> IF resp = "neterr" THEN "network" ELSE "Caption HTTP"]

\* variant: the combined result is a success only when both calls succeeded
AnalyzeResultNeedsBoth(captionResult, uploadResult) ==
  IF uploadResult.success /\ captionResult.success
  THEN [success |-> TRUE, mediaId |-> uploadResult.mediaId,
        caption |-> captionResult.caption, error |-> ""]
  ELSE [success |-> FALSE, mediaId |-> MediaIdOf(NoData), caption |-> "",
        error |-> uploadResult.error]

\* the combined result uploadAndAnalyze builds from the two settled calls
AnalyzeResult(captionResult, uploadResult) ==
  LET caption == IF captionResult.success THEN captionResult.caption ELSE ""
  IN IF uploadResult.success
     THEN [success |-> TRUE, mediaId |-> uploadResult.mediaId, caption |-> caption, error |-> ""]
     ELSE [success |-> FALSE, mediaId |-> MediaIdOf(NoData), caption |-> "", error |-> uploadResult.error]

NoAnalysis == [success |-> FALSE, mediaId |-> MediaIdOf(NoData), caption |-> "", error |-> ""]

NoResult == [success |-> FALSE, images |-> <<>>, error |-> ""]

\* variant: the two reference models are exchanged
RefModelSwapped(references) ==
  IF Len(references) = 1 THEN MODELS.refMultiple ELSE MODELS.refSingle

\* the model generateWithReference puts in its payload
RefModel(references) ==
  IF Len(references) = 1 THEN MODELS.refSingle ELSE MODELS.refMultiple

StyleRef(analysisResult) ==
  [category |-> Category, mediaId |-> analysisResult.mediaId, caption |-> analysisResult.caption]

\* ------------------------------------------------------ build-presentation
Gradients ==
  [title |-> [from |-> "#0f0c29", via |-> "#302b63", to |-> "#24243e"],
   content |-> [from |-> "#1a1a2e", via |-> "#16213e", to |-> "#0f3460"],
   data |-> [from |-> "#0d1117", via |-> "#161b22", to |-> "#21262d"],
   features |-> [from |-> "#1a1a2e", via |-> "#1f2937", to |-> "#111827"],
   closing |-> [from |-> "#2d1b69", via |-> "#1e1145", to |-> "#0f0c29"]]

NoGradient == [from |-> "", via |-> "", to |-> ""]

\* the colours read from a value that is not a gradient record
UndefinedGradient == [from |-> "undefined", via |-> "undefined", to |-> "undefined"]

\* gradients[slideType] || gradients.content
GradientFor(slideType) ==
  IF slideType \in DOMAIN Gradients THEN Gradients[slideType]
  ELSE IF slideType \in InheritedKeys THEN UndefinedGradient
  ELSE Gradients.content

\* path.join(outputDir, `bg-${index}-${slideType}.png`)
BgPath(index, slideType) == [file |-> "bg", index |-> index, type |-> slideType]

\* path.join(outputDir, `slide${index}-${slideType}.html`)
HtmlPath(index, slideType) == [file |-> "slide", index |-> index, type |-> slideType]

PptxPath == [file |-> "presentation", index |-> -1, type |-> ""]

NoPath == [file |-> "", index |-> -1, type |-> ""]

RemoteContent(data) ==
  [kind |-> "remote", image |-> data, gradient |-> NoGradient, bgImage |-> NoPath]

FallbackContent(slideType) ==
  [kind |-> "fallback", image |-> NoData, gradient |-> GradientFor(slideType), bgImage |-> NoPath]

\* the type of 0-based slide i
TypeOf(s, i) == s[i + 1].type

VARIABLES
  slides,          \* config.slides: sequence of [type |-> ...]
  refPaths,        \* config.refs: the state on disk of each reference path
  tokenFile,       \* content of ~/.whisk-proxy/token.json
  now,             \* Date.now()
  pc,              \* position of the build
  tokenData,       \* generateWhiskBackgrounds: result of whisk.loadToken()
  tokenReads,      \* number of reads of the credential file
  refIdx,          \* generateWhiskBackgrounds: position in refPaths (1-based)
  userRefs,        \* generateWhiskBackgrounds: userRefs
  consistencyRefs, \* generateWhiskBackgrounds: consistencyRefs
  i,               \* index of the running for loop (0-based)
  results,         \* generateWhiskBackgrounds: results
  whiskReturn,     \* "pending", "null" or "results"
  backgrounds,     \* buildPresentation: backgrounds
  genResult,       \* result of the last settled generation call
  inflight,        \* remote calls issued and not yet settled (positions in calls)
  uaData,          \* uploadAndAnalyze: base64Data
  uaCaller,        \* uploadAndAnalyze: call site to resume ("ref" or "anchor")
  captionResult,   \* uploadAndAnalyze: settled result of getCaptionForImage
  uploadResult,    \* uploadAndAnalyze: settled result of uploadReference
  analysis,        \* value uploadAndAnalyze resolved with
  calls,           \* history: every remote call issued, in order
  writes,          \* history: every file written, in order
  uaLog,           \* history: every uploadAndAnalyze result, in order
  genFailed,       \* history: slide indices whose generation call failed
  clock,           \* history: logical time of calls and writes
  htmlFiles,       \* buildPresentation: htmlFiles
  assembled,       \* markup files handed to html2pptx so far, in order
  thumbnails,      \* "none", "saved" or "failed"
  ratioLog,        \* history: the normalizeAspectRatio calls of a client caller
  settled,         \* history: calls settled since the last continuation, with their response
  error            \* "" or the reason the build rejected

vars == <<slides, refPaths, tokenFile, now, pc, tokenData, tokenReads, refIdx,
          userRefs, consistencyRefs, i, results, whiskReturn, backgrounds,
          genResult, inflight, uaData, uaCaller, captionResult, uploadResult,
          analysis, calls, writes, uaLog, genFailed, clock, htmlFiles,
          assembled, thumbnails, ratioLog, settled, error>>

inputs == <<slides, refPaths, tokenFile, now>>

N == Len(slides)

InitWith(types) ==
  /\ slides \in {s \in SeqsUpTo({[type |-> t] : t \in types}, MaxInput) : Len(s) >= 1}
  /\ refPaths \in SeqsUpTo(RefStates, MaxInput - Len(slides))
  /\ tokenFile \in TokenFiles
  /\ now = Now0
  /\ pc = "start"
  /\ tokenData = NullToken
  /\ tokenReads = 0
  /\ refIdx = 1
  /\ userRefs = <<>>
  /\ consistencyRefs = <<>>
  /\ i = 0
  /\ results = <<>>
  /\ whiskReturn = "pending"
  /\ backgrounds = <<>>
  /\ genResult = NoResult
  /\ inflight = {}
  /\ uaData = NoData
  /\ uaCaller = ""
  /\ captionResult = CaptionResult("neterr", NoData)
  /\ uploadResult = UploadResult("neterr", NoData)
  /\ analysis = NoAnalysis
  /\ calls = <<>>
  /\ writes = <<>>
  /\ uaLog = <<>>
  /\ genFailed = {}
  /\ clock = 0
  /\ htmlFiles = <<>>
  /\ assembled = <<>>
  /\ thumbnails = "none"
  /\ ratioLog = <<>>
  /\ settled = <<>>
  /\ error = ""

Init == InitWith(SlideTypes)

\* ----------------------------------------------------------------- helpers
Call(op, slide, data, refs, at) ==
  [op |-> op, slide |-> slide, data |-> data, refs |-> refs,
   model |-> IF op = "generateImage" THEN MODELS.default
             ELSE IF op = "generateWithReference" THEN RefModel(refs)
             ELSE "",
   aspectRatio |-> IF op \in GenOps THEN normalizeAspectRatio("16:9") ELSE "",
   token |-> tokenData.accessToken, at |-> at, time |-> now]

Write(path, content, at) == [path |-> path, content |-> content, at |-> at]

\* variant: generateWithReference is called whatever the list holds
GenCallAlwaysRef(refs, slide, at) ==
  Call("generateWithReference", slide, NoData, refs, at)

\* the generation call for a slide: with references iff the list is non-empty
GenCall(refs, slide, at) ==
  IF Len(refs) > 0
  THEN Call("generateWithReference", slide, NoData, refs, at)
  ELSE Call("generateImage", slide, NoData, <<>>, at)

\* the build rejects with an error
Reject(reason) ==
  /\ pc' = "rejected"
  /\ error' = reason

\* generateFallbackBackground: the file sharp writes
FallbackWrite(slideType, index, at) ==
  Write(BgPath(index, slideType), FallbackContent(slideType), at)

\* uploadAndAnalyze: both calls are issued before the first await
IssueAnalyze(data, caller, at) ==
  /\ calls' = calls \o <<Call("getCaptionForImage", -1, data, <<>>, at + 1),
                         Call("uploadReference", -1, data, <<>>, at + 2)>>
  /\ clock' = at + 2
  /\ inflight' = inflight \cup {Len(calls) + 1, Len(calls) + 2}
  /\ uaData' = data
  /\ uaCaller' = caller
  /\ pc' = "uaWait"

\* ------------------------------------------------- buildPresentation entry
Begin ==
  /\ pc = "start"
  /\ pc' = "whiskEntry"
  /\ UNCHANGED <<inputs, ratioLog, settled, tokenData, tokenReads, refIdx, userRefs, consistencyRefs,
                 i, results, whiskReturn, backgrounds, genResult, inflight, uaData,
                 uaCaller, captionResult, uploadResult, analysis, calls, writes,
                 uaLog, genFailed, clock, htmlFiles, assembled, thumbnails, error>>

\* ------------------------------------------------ generateWhiskBackgrounds
\* variant: the null check on tokenData is missing
WhiskEntryIgnoresNull ==
  /\ pc = "whiskEntry"
  /\ tokenData' = loadToken(tokenFile, now)
  /\ tokenReads' = tokenReads + 1
  /\ pc' = "refLoop"
  /\ UNCHANGED <<inputs, ratioLog, settled, refIdx, userRefs, consistencyRefs, i, results, whiskReturn,
                 backgrounds, genResult, inflight, uaData, uaCaller, captionResult,
                 uploadResult, analysis, calls, writes, uaLog, genFailed, clock,
                 htmlFiles, assembled, thumbnails, error>>

WhiskEntry ==
  /\ pc = "whiskEntry"
  /\ tokenData' = loadToken(tokenFile, now)
  /\ tokenReads' = tokenReads + 1
  /\ IF tokenData'.ok
     THEN pc' = "refLoop" /\ whiskReturn' = whiskReturn
     ELSE pc' = "whiskDone" /\ whiskReturn' = "null"
  /\ UNCHANGED <<inputs, ratioLog, settled, refIdx, userRefs, consistencyRefs, i, results,
                 backgrounds, genResult, inflight, uaData, uaCaller, captionResult,
                 uploadResult, analysis, calls, writes, uaLog, genFailed, clock,
                 htmlFiles, assembled, thumbnails, error>>

\* Phase 1a: a path that does not exist is skipped
RefSkipMissing ==
  /\ pc = "refLoop"
  /\ refIdx <= Len(refPaths)
  /\ refPaths[refIdx] = "missing"
  /\ refIdx' = refIdx + 1
  /\ UNCHANGED <<inputs, ratioLog, settled, pc, tokenData, tokenReads, userRefs, consistencyRefs, i,
                 results, whiskReturn, backgrounds, genResult, inflight, uaData,
                 uaCaller, captionResult, uploadResult, analysis, calls, writes,
                 uaLog, genFailed, clock, htmlFiles, assembled, thumbnails, error>>

\* Phase 1a: fs.readFileSync throws on a path that exists and cannot be read
RefReadFails ==
  /\ pc = "refLoop"
  /\ refIdx <= Len(refPaths)
  /\ refPaths[refIdx] = "unreadable"
  /\ Reject("readFileSync")
  /\ UNCHANGED <<inputs, ratioLog, settled, tokenData, tokenReads, refIdx, userRefs, consistencyRefs,
                 i, results, whiskReturn, backgrounds, genResult, inflight, uaData,
                 uaCaller, captionResult, uploadResult, analysis, calls, writes,
                 uaLog, genFailed, clock, htmlFiles, assembled, thumbnails>>

\* Phase 1a: the file is read and handed to uploadAndAnalyze
RefUpload ==
  /\ pc = "refLoop"
  /\ refIdx <= Len(refPaths)
  /\ refPaths[refIdx] = "ok"
  /\ IssueAnalyze(FileData(refIdx), "ref", clock)
  /\ UNCHANGED <<inputs, ratioLog, settled, tokenData, tokenReads, refIdx, userRefs, consistencyRefs,
                 i, results, whiskReturn, backgrounds, genResult, captionResult,
                 uploadResult, analysis, writes, uaLog, genFailed, htmlFiles,
                 assembled, thumbnails, error>>

\* getCaptionForImage settles
CaptionComplete ==
  /\ pc = "uaWait"
  /\ \E c \in inflight :
       /\ calls[c].op = "getCaptionForImage"
       /\ inflight' = inflight \ {c}
       /\ \E resp \in Responses :
            /\ captionResult' = CaptionResult(resp, calls[c].data)
            /\ settled' = Append(settled, [op |-> calls[c].op, resp |-> resp])
  /\ UNCHANGED <<inputs, ratioLog, pc, tokenData, tokenReads, refIdx, userRefs,
                 consistencyRefs, i, results, whiskReturn, backgrounds, genResult,
                 uaData, uaCaller, uploadResult, analysis, calls, writes, uaLog,
                 genFailed, clock, htmlFiles, assembled, thumbnails, error>>

\* uploadReference settles
UploadComplete ==
  /\ pc = "uaWait"
  /\ \E c \in inflight :
       /\ calls[c].op = "uploadReference"
       /\ inflight' = inflight \ {c}
       /\ \E resp \in Responses :
            /\ uploadResult' = UploadResult(resp, calls[c].data)
            /\ settled' = Append(settled, [op |-> calls[c].op, resp |-> resp])
  /\ UNCHANGED <<inputs, ratioLog, pc, tokenData, tokenReads, refIdx, userRefs,
                 consistencyRefs, i, results, whiskReturn, backgrounds, genResult,
                 uaData, uaCaller, captionResult, analysis, calls, writes, uaLog,
                 genFailed, clock, htmlFiles, assembled, thumbnails, error>>

\* variant: the combined result is built without waiting for both calls
AnalyzeReturnEarly ==
  /\ pc = "uaWait"
  /\ analysis' = AnalyzeResult(captionResult, uploadResult)
  /\ uaLog' = Append(uaLog, [data |-> uaData, success |-> analysis'.success])
  /\ pc' = IF uaCaller = "ref" THEN "refResume" ELSE "anchorResume"
  /\ uaData' = NoData
  /\ uaCaller' = ""
  /\ UNCHANGED <<inputs, ratioLog, settled, captionResult, uploadResult, tokenData, tokenReads, refIdx, userRefs, consistencyRefs,
                 i, results, whiskReturn, backgrounds, genResult, inflight, calls,
                 writes, genFailed, clock, htmlFiles, assembled, thumbnails, error>>

\* Promise.all resolved: uploadAndAnalyze returns to its caller
AnalyzeReturn ==
  /\ pc = "uaWait"
  /\ inflight = {}
  /\ analysis' = AnalyzeResult(captionResult, uploadResult)
  /\ uaLog' = Append(uaLog, [data |-> uaData, success |-> analysis'.success])
  /\ pc' = IF uaCaller = "ref" THEN "refResume" ELSE "anchorResume"
  /\ uaData' = NoData
  /\ uaCaller' = ""
  /\ UNCHANGED <<inputs, ratioLog, settled, captionResult, uploadResult, tokenData, tokenReads, refIdx, userRefs, consistencyRefs,
                 i, results, whiskReturn, backgrounds, genResult, inflight, calls,
                 writes, genFailed, clock, htmlFiles, assembled, thumbnails, error>>

\* variant: unshift instead of push
PushUserRefFront(refs, analysisResult) ==
  IF analysisResult.success THEN <<StyleRef(analysisResult)>> \o refs ELSE refs

\* userRefs after the push guarded by analysis.success
PushUserRef(refs, analysisResult) ==
  IF analysisResult.success THEN Append(refs, StyleRef(analysisResult)) ELSE refs

\* Phase 1a: the analysis of a reference is collected
RefResume ==
  /\ pc = "refResume"
  /\ userRefs' = PushUserRef(userRefs, analysis)
  /\ refIdx' = refIdx + 1
  /\ analysis' = NoAnalysis
  /\ pc' = "refLoop"
  /\ settled' = <<>>
  /\ captionResult' = CaptionResult("neterr", NoData)
  /\ uploadResult' = UploadResult("neterr", NoData)
  /\ UNCHANGED <<inputs, ratioLog, tokenData, tokenReads, consistencyRefs, i, results,
                 whiskReturn, backgrounds, genResult, inflight, uaData, uaCaller,
                 calls, writes, uaLog, genFailed,
                 clock, htmlFiles, assembled, thumbnails, error>>

\* variant: the credential is loaded again before the anchor call
AnchorIssueReloads ==
  /\ pc = "refLoop"
  /\ refIdx > Len(refPaths)
  /\ tokenData' = loadToken(tokenFile, now)
  /\ tokenReads' = tokenReads + 1
  /\ calls' = Append(calls, GenCall(userRefs, 0, clock + 1))
  /\ clock' = clock + 1
  /\ inflight' = inflight \cup {Len(calls) + 1}
  /\ pc' = "anchorWait"
  /\ UNCHANGED <<inputs, ratioLog, settled, refIdx, userRefs, consistencyRefs,
                 i, results, whiskReturn, backgrounds, genResult, uaData, uaCaller,
                 captionResult, uploadResult, analysis, writes, uaLog, genFailed,
                 htmlFiles, assembled, thumbnails, error>>

\* Phase 1b: the anchor generation call is issued
AnchorIssue ==
  /\ pc = "refLoop"
  /\ refIdx > Len(refPaths)
  /\ calls' = Append(calls, GenCall(userRefs, 0, clock + 1))
  /\ clock' = clock + 1
  /\ inflight' = inflight \cup {Len(calls) + 1}
  /\ pc' = "anchorWait"
  /\ UNCHANGED <<inputs, ratioLog, settled, tokenData, tokenReads, refIdx, userRefs, consistencyRefs,
                 i, results, whiskReturn, backgrounds, genResult, uaData, uaCaller,
                 captionResult, uploadResult, analysis, writes, uaLog, genFailed,
                 htmlFiles, assembled, thumbnails, error>>

\* the anchor generation call settles
AnchorComplete ==
  /\ pc = "anchorWait"
  /\ \E c \in inflight :
       /\ calls[c].op \in GenOps
       /\ calls[c].slide = 0
       /\ inflight' = inflight \ {c}
       /\ \E resp \in Responses :
            /\ genResult' = GenResult(resp, GenData(0))
            /\ settled' = Append(settled, [op |-> calls[c].op, resp |-> resp])
  /\ pc' = "anchorSettled"
  /\ UNCHANGED <<inputs, ratioLog, tokenData, tokenReads, refIdx, userRefs, consistencyRefs,
                 i, results, whiskReturn, backgrounds, uaData, uaCaller,
                 captionResult, uploadResult, analysis, calls, writes, uaLog,
                 genFailed, clock, htmlFiles, assembled, thumbnails, error>>

\* variant: a failed anchor is handled like a failed later slide
AnchorFailedPerSlide ==
  /\ pc = "anchorSettled"
  /\ ~genResult.success
  /\ genFailed' = genFailed \cup {0}
  /\ genResult' = NoResult
  /\ pc' = "slideFallback"
  /\ settled' = <<>>
  /\ UNCHANGED <<inputs, ratioLog, tokenData, tokenReads, refIdx, userRefs, consistencyRefs,
                 i, results, whiskReturn, backgrounds, inflight, uaData, uaCaller,
                 captionResult, uploadResult, analysis, calls, writes, uaLog, clock,
                 htmlFiles, assembled, thumbnails, error>>

\* Phase 1b: the anchor failed, the whole phase returns null
AnchorFailed ==
  /\ pc = "anchorSettled"
  /\ ~genResult.success
  /\ genFailed' = genFailed \cup {0}
  /\ genResult' = NoResult
  /\ whiskReturn' = "null"
  /\ pc' = "whiskDone"
  /\ settled' = <<>>
  /\ UNCHANGED <<inputs, ratioLog, tokenData, tokenReads, refIdx, userRefs, consistencyRefs,
                 i, results, backgrounds, inflight, uaData, uaCaller, captionResult,
                 uploadResult, analysis, calls, writes, uaLog, clock, htmlFiles,
                 assembled, thumbnails, error>>

\* saveBase64Image throws while writing the anchor
AnchorSaveFails ==
  /\ pc = "anchorSettled"
  /\ genResult.success
  /\ Reject("saveBase64Image")
  /\ UNCHANGED <<inputs, ratioLog, settled, tokenData, tokenReads, refIdx, userRefs, consistencyRefs,
                 i, results, whiskReturn, backgrounds, genResult, inflight, uaData,
                 uaCaller, captionResult, uploadResult, analysis, calls, writes,
                 uaLog, genFailed, clock, htmlFiles, assembled, thumbnails>>

\* variant: the payload handed to uploadAndAnalyze is the first reference file, not the saved anchor
AnchorPromotesInput ==
  /\ pc = "anchorSettled"
  /\ genResult.success
  /\ writes' = Append(writes, Write(BgPath(0, TypeOf(slides, 0)),
                                    RemoteContent(genResult.images[1]), clock + 1))
  /\ results' = Append(results, BgPath(0, TypeOf(slides, 0)))
  /\ IssueAnalyze(FileData(1), "anchor", clock + 1)
  /\ genResult' = NoResult
  /\ settled' = <<>>
  /\ UNCHANGED <<inputs, ratioLog, tokenData, tokenReads, refIdx, userRefs, consistencyRefs,
                 i, whiskReturn, backgrounds, captionResult, uploadResult, analysis,
                 uaLog, genFailed, htmlFiles, assembled, thumbnails, error>>

\* Phase 1b/1c: the anchor is saved and handed to uploadAndAnalyze
AnchorSaveAndPromote ==
  /\ pc = "anchorSettled"
  /\ genResult.success
  /\ writes' = Append(writes, Write(BgPath(0, TypeOf(slides, 0)),
                                    RemoteContent(genResult.images[1]), clock + 1))
  /\ results' = Append(results, BgPath(0, TypeOf(slides, 0)))
  /\ IssueAnalyze(genResult.images[1], "anchor", clock + 1)
  /\ genResult' = NoResult
  /\ settled' = <<>>
  /\ UNCHANGED <<inputs, ratioLog, tokenData, tokenReads, refIdx, userRefs, consistencyRefs,
                 i, whiskReturn, backgrounds, captionResult, uploadResult, analysis,
                 uaLog, genFailed, htmlFiles, assembled, thumbnails, error>>

\* variant: the anchor reference is never appended
ConsistencyRefsNoAnchor(refs, anchorRef) == refs

\* variant: the anchor reference is appended without looking at success
ConsistencyRefsAlways(refs, anchorRef) == Append(refs, StyleRef(anchorRef))

\* [...userRefs] plus the anchor reference when its upload succeeded
ConsistencyRefs(refs, anchorRef) ==
  IF anchorRef.success THEN Append(refs, StyleRef(anchorRef)) ELSE refs

\* variant: a failed anchor upload makes the phase return null
AnchorResumeGivesUp ==
  /\ pc = "anchorResume"
  /\ consistencyRefs' = ConsistencyRefs(userRefs, analysis)
  /\ analysis' = NoAnalysis
  /\ i' = 1
  /\ pc' = IF analysis.success THEN "slideLoop" ELSE "whiskDone"
  /\ whiskReturn' = IF analysis.success THEN whiskReturn ELSE "null"
  /\ settled' = <<>>
  /\ captionResult' = CaptionResult("neterr", NoData)
  /\ uploadResult' = UploadResult("neterr", NoData)
  /\ UNCHANGED <<inputs, ratioLog, tokenData, tokenReads, refIdx, userRefs, results,
                 backgrounds, genResult, inflight, uaData, uaCaller,
                 calls, writes, uaLog, genFailed,
                 clock, htmlFiles, assembled, thumbnails, error>>

\* Phase 1c: consistencyRefs is built and the loop over slides 1..N-1 starts
AnchorResume ==
  /\ pc = "anchorResume"
  /\ consistencyRefs' = ConsistencyRefs(userRefs, analysis)
  /\ analysis' = NoAnalysis
  /\ i' = 1
  /\ pc' = "slideLoop"
  /\ settled' = <<>>
  /\ captionResult' = CaptionResult("neterr", NoData)
  /\ uploadResult' = UploadResult("neterr", NoData)
  /\ UNCHANGED <<inputs, ratioLog, tokenData, tokenReads, refIdx, userRefs, results,
                 whiskReturn, backgrounds, genResult, inflight, uaData, uaCaller,
                 calls, writes, uaLog, genFailed,
                 clock, htmlFiles, assembled, thumbnails, error>>

\* variant: the call of the next slide is issued without awaiting this one
SlideIssueAhead ==
  /\ pc = "slideLoop"
  /\ i < N
  /\ calls' = calls \o <<GenCall(consistencyRefs, i, clock + 1)>>
                    \o (IF i + 1 < N THEN <<GenCall(consistencyRefs, i + 1, clock + 2)>> ELSE <<>>)
  /\ clock' = clock + 2
  /\ inflight' = inflight \cup {Len(calls) + 1} \cup (IF i + 1 < N THEN {Len(calls) + 2} ELSE {})
  /\ pc' = "slideWait"
  /\ UNCHANGED <<inputs, ratioLog, settled, tokenData, tokenReads, refIdx, userRefs, consistencyRefs,
                 i, results, whiskReturn, backgrounds, genResult, uaData, uaCaller,
                 captionResult, uploadResult, analysis, writes, uaLog, genFailed,
                 htmlFiles, assembled, thumbnails, error>>

\* Phase 1d: the generation call of slide i is issued
SlideIssue ==
  /\ pc = "slideLoop"
  /\ i < N
  /\ calls' = Append(calls, GenCall(consistencyRefs, i, clock + 1))
  /\ clock' = clock + 1
  /\ inflight' = inflight \cup {Len(calls) + 1}
  /\ pc' = "slideWait"
  /\ UNCHANGED <<inputs, ratioLog, settled, tokenData, tokenReads, refIdx, userRefs, consistencyRefs,
                 i, results, whiskReturn, backgrounds, genResult, uaData, uaCaller,
                 captionResult, uploadResult, analysis, writes, uaLog, genFailed,
                 htmlFiles, assembled, thumbnails, error>>

\* the generation call of slide i settles
SlideComplete ==
  /\ pc = "slideWait"
  /\ \E c \in inflight :
       /\ calls[c].op \in GenOps
       /\ calls[c].slide = i
       /\ inflight' = inflight \ {c}
       /\ \E resp \in Responses :
            /\ genResult' = GenResult(resp, GenData(i))
            /\ settled' = Append(settled, [op |-> calls[c].op, resp |-> resp])
  /\ pc' = "slideSettled"
  /\ UNCHANGED <<inputs, ratioLog, tokenData, tokenReads, refIdx, userRefs, consistencyRefs,
                 i, results, whiskReturn, backgrounds, uaData, uaCaller,
                 captionResult, uploadResult, analysis, calls, writes, uaLog,
                 genFailed, clock, htmlFiles, assembled, thumbnails, error>>

\* variant: break instead of continue
AfterSlideFallbackBreak(idx) == IF idx + 1 < N THEN N ELSE idx + 1

\* where the loop goes after a failed slide whose fallback was pushed
AfterSlideFallback(idx) == idx + 1

\* variant: a failed slide is skipped without a fallback
SlideFailedNoFallback ==
  /\ pc = "slideSettled"
  /\ ~genResult.success
  /\ genFailed' = genFailed \cup {i}
  /\ genResult' = NoResult
  /\ i' = i + 1
  /\ pc' = "slideLoop"
  /\ settled' = <<>>
  /\ UNCHANGED <<inputs, ratioLog, tokenData, tokenReads, refIdx, userRefs, consistencyRefs,
                 results, whiskReturn, backgrounds, inflight, uaData, uaCaller,
                 captionResult, uploadResult, analysis, calls, writes, uaLog, clock,
                 htmlFiles, assembled, thumbnails, error>>

\* variant: a failed slide is tried once more before its fallback
SlideFailedRetries ==
  /\ pc = "slideSettled"
  /\ ~genResult.success
  /\ genFailed' = genFailed \cup {i}
  /\ genResult' = NoResult
  /\ pc' = IF i \in genFailed THEN "slideFallback" ELSE "slideLoop"
  /\ settled' = <<>>
  /\ UNCHANGED <<inputs, ratioLog, tokenData, tokenReads, refIdx, userRefs, consistencyRefs,
                 i, results, whiskReturn, backgrounds, inflight, uaData, uaCaller,
                 captionResult, uploadResult, analysis, calls, writes, uaLog, clock,
                 htmlFiles, assembled, thumbnails, error>>

\* Phase 1d: slide i failed, its fallback is requested from sharp
SlideFailed ==
  /\ pc = "slideSettled"
  /\ ~genResult.success
  /\ genFailed' = genFailed \cup {i}
  /\ genResult' = NoResult
  /\ pc' = "slideFallback"
  /\ settled' = <<>>
  /\ UNCHANGED <<inputs, ratioLog, tokenData, tokenReads, refIdx, userRefs, consistencyRefs,
                 i, results, whiskReturn, backgrounds, inflight, uaData, uaCaller,
                 captionResult, uploadResult, analysis, calls, writes, uaLog, clock,
                 htmlFiles, assembled, thumbnails, error>>

\* variant: after the fallback the same slide is handled as failed again
SlideFallbackDoneAgain ==
  /\ pc = "slideFallback"
  /\ pc' = "slideSettled"
  /\ UNCHANGED <<inputs, ratioLog, settled, tokenData, tokenReads, refIdx, userRefs, consistencyRefs,
                 i, results, whiskReturn, backgrounds, genResult, inflight, uaData, uaCaller,
                 captionResult, uploadResult, analysis, calls, writes, uaLog, genFailed,
                 clock, htmlFiles, assembled, thumbnails, error>>

\* Phase 1d: the fallback of slide i is written and pushed, the loop goes on
SlideFallbackDone ==
  /\ pc = "slideFallback"
  /\ writes' = Append(writes, FallbackWrite(TypeOf(slides, i), i, clock + 1))
  /\ clock' = clock + 1
  /\ results' = Append(results, BgPath(i, TypeOf(slides, i)))
  /\ i' = AfterSlideFallback(i)
  /\ pc' = "slideLoop"
  /\ UNCHANGED <<inputs, ratioLog, settled, tokenData, tokenReads, refIdx, userRefs, consistencyRefs,
                 whiskReturn, backgrounds, genResult, inflight, uaData, uaCaller,
                 captionResult, uploadResult, analysis, calls, uaLog, genFailed,
                 htmlFiles, assembled, thumbnails, error>>

\* variant: a failed fallback write is ignored and the loop goes on
SlideFallbackFailsIgnored ==
  /\ pc = "slideFallback"
  /\ error' = "sharp.toFile"
  /\ results' = Append(results, BgPath(i, TypeOf(slides, i)))
  /\ i' = i + 1
  /\ pc' = "slideLoop"
  /\ UNCHANGED <<inputs, ratioLog, settled, tokenData, tokenReads, refIdx, userRefs, consistencyRefs,
                 whiskReturn, backgrounds, genResult, inflight, uaData,
                 uaCaller, captionResult, uploadResult, analysis, calls, writes,
                 uaLog, genFailed, clock, htmlFiles, assembled, thumbnails>>

\* Phase 1d: sharp fails to write the fallback of slide i
SlideFallbackFails ==
  /\ pc = "slideFallback"
  /\ Reject("sharp.toFile")
  /\ UNCHANGED <<inputs, ratioLog, settled, tokenData, tokenReads, refIdx, userRefs, consistencyRefs,
                 i, results, whiskReturn, backgrounds, genResult, inflight, uaData,
                 uaCaller, captionResult, uploadResult, analysis, calls, writes,
                 uaLog, genFailed, clock, htmlFiles, assembled, thumbnails>>

\* variant: each saved image is added to the references of the later slides
SlideSaveChainsRefs ==
  /\ pc = "slideSettled"
  /\ genResult.success
  /\ writes' = Append(writes, Write(BgPath(i, TypeOf(slides, i)),
                                    RemoteContent(genResult.images[1]), clock + 1))
  /\ clock' = clock + 1
  /\ results' = Append(results, BgPath(i, TypeOf(slides, i)))
  /\ genResult' = NoResult
  /\ i' = i + 1
  /\ consistencyRefs' = Append(consistencyRefs, [category |-> Category,
                                                  mediaId |-> MediaIdOf(GenData(i)),
                                                  caption |-> ""])
  /\ pc' = "slideLoop"
  /\ settled' = <<>>
  /\ UNCHANGED <<inputs, ratioLog, tokenData, tokenReads, refIdx, userRefs,
                 whiskReturn, backgrounds, inflight, uaData, uaCaller,
                 captionResult, uploadResult, analysis, calls, uaLog, genFailed,
                 htmlFiles, assembled, thumbnails, error>>

\* Phase 1d: the image of slide i is saved and pushed
SlideSave ==
  /\ pc = "slideSettled"
  /\ genResult.success
  /\ writes' = Append(writes, Write(BgPath(i, TypeOf(slides, i)),
                                    RemoteContent(genResult.images[1]), clock + 1))
  /\ clock' = clock + 1
  /\ results' = Append(results, BgPath(i, TypeOf(slides, i)))
  /\ genResult' = NoResult
  /\ i' = i + 1
  /\ pc' = "slideLoop"
  /\ settled' = <<>>
  /\ UNCHANGED <<inputs, ratioLog, tokenData, tokenReads, refIdx, userRefs, consistencyRefs,
                 whiskReturn, backgrounds, inflight, uaData, uaCaller,
                 captionResult, uploadResult, analysis, calls, uaLog, genFailed,
                 htmlFiles, assembled, thumbnails, error>>

\* Phase 1d: saveBase64Image throws while writing the image of slide i
SlideSaveFails ==
  /\ pc = "slideSettled"
  /\ genResult.success
  /\ Reject("saveBase64Image")
  /\ UNCHANGED <<inputs, ratioLog, settled, tokenData, tokenReads, refIdx, userRefs, consistencyRefs,
                 i, results, whiskReturn, backgrounds, genResult, inflight, uaData,
                 uaCaller, captionResult, uploadResult, analysis, calls, writes,
                 uaLog, genFailed, clock, htmlFiles, assembled, thumbnails>>

\* the loop is over: generateWhiskBackgrounds returns results
WhiskReturnResults ==
  /\ pc = "slideLoop"
  /\ i >= N
  /\ whiskReturn' = "results"
  /\ pc' = "whiskDone"
  /\ UNCHANGED <<inputs, ratioLog, settled, tokenData, tokenReads, refIdx, userRefs, consistencyRefs,
                 i, results, backgrounds, genResult, inflight, uaData, uaCaller,
                 captionResult, uploadResult, analysis, calls, writes, uaLog,
                 genFailed, clock, htmlFiles, assembled, thumbnails, error>>

\* ------------------------------------------------------- buildPresentation
\* Phase 1: generateWhiskBackgrounds returned an array
BackgroundsFromWhisk ==
  /\ pc = "whiskDone"
  /\ whiskReturn = "results"
  /\ backgrounds' = results
  /\ i' = 0
  /\ pc' = "markup"
  /\ UNCHANGED <<inputs, ratioLog, settled, tokenData, tokenReads, refIdx, userRefs, consistencyRefs,
                 results, whiskReturn, genResult, inflight, uaData, uaCaller,
                 captionResult, uploadResult, analysis, calls, writes, uaLog,
                 genFailed, clock, htmlFiles, assembled, thumbnails, error>>

\* Phase 1: generateWhiskBackgrounds returned null, the fallback pass starts
FallbackPassStart ==
  /\ pc = "whiskDone"
  /\ whiskReturn = "null"
  /\ backgrounds' = <<>>
  /\ i' = 0
  /\ pc' = "fallbackPass"
  /\ UNCHANGED <<inputs, ratioLog, settled, tokenData, tokenReads, refIdx, userRefs, consistencyRefs,
                 results, whiskReturn, genResult, inflight, uaData, uaCaller,
                 captionResult, uploadResult, analysis, calls, writes, uaLog,
                 genFailed, clock, htmlFiles, assembled, thumbnails, error>>

\* Phase 1: the fallback of slide i is written and pushed
FallbackPassStep ==
  /\ pc = "fallbackPass"
  /\ i < N
  /\ writes' = Append(writes, FallbackWrite(TypeOf(slides, i), i, clock + 1))
  /\ clock' = clock + 1
  /\ backgrounds' = Append(backgrounds, BgPath(i, TypeOf(slides, i)))
  /\ i' = i + 1
  /\ UNCHANGED <<inputs, ratioLog, settled, pc, tokenData, tokenReads, refIdx, userRefs,
                 consistencyRefs, results, whiskReturn, genResult, inflight, uaData,
                 uaCaller, captionResult, uploadResult, analysis, calls, uaLog,
                 genFailed, htmlFiles, assembled, thumbnails, error>>

\* Phase 1: sharp fails to write a fallback of the pass
FallbackPassFails ==
  /\ pc = "fallbackPass"
  /\ i < N
  /\ Reject("sharp.toFile")
  /\ UNCHANGED <<inputs, ratioLog, settled, tokenData, tokenReads, refIdx, userRefs, consistencyRefs,
                 i, results, whiskReturn, backgrounds, genResult, inflight, uaData,
                 uaCaller, captionResult, uploadResult, analysis, calls, writes,
                 uaLog, genFailed, clock, htmlFiles, assembled, thumbnails>>

\* Phase 1: the fallback pass is over
FallbackPassExit ==
  /\ pc = "fallbackPass"
  /\ i >= N
  /\ i' = 0
  /\ pc' = "markup"
  /\ UNCHANGED <<inputs, ratioLog, settled, tokenData, tokenReads, refIdx, userRefs, consistencyRefs,
                 results, whiskReturn, backgrounds, genResult, inflight, uaData,
                 uaCaller, captionResult, uploadResult, analysis, calls, writes,
                 uaLog, genFailed, clock, htmlFiles, assembled, thumbnails, error>>

\* variant: the background is taken at the position of the markup file in htmlFiles
BackgroundAtPacked(bgs, idx) ==
  IF Len(htmlFiles) + 1 <= Len(bgs) THEN bgs[Len(htmlFiles) + 1] ELSE NoPath

\* backgrounds[i], undefined when the array is shorter
BackgroundAt(bgs, idx) == IF idx + 1 <= Len(bgs) THEN bgs[idx + 1] ELSE NoPath

\* the markup a template renders for a slide
HtmlContent(slideType, bgImage) ==
  IF slideType \in KnownTypes
  THEN [kind |-> "html", image |-> NoData, gradient |-> NoGradient, bgImage |-> bgImage]
  ELSE [kind |-> "[object Undefined]", image |-> NoData, gradient |-> NoGradient,
        bgImage |-> NoPath]

\* Phase 2: a slide without a template is skipped
MarkupSkip ==
  /\ pc = "markup"
  /\ i < N
  /\ ~HasTemplate(TypeOf(slides, i))
  /\ i' = i + 1
  /\ UNCHANGED <<inputs, ratioLog, settled, pc, tokenData, tokenReads, refIdx, userRefs,
                 consistencyRefs, results, whiskReturn, backgrounds, genResult,
                 inflight, uaData, uaCaller, captionResult, uploadResult, analysis,
                 calls, writes, uaLog, genFailed, clock, htmlFiles, assembled,
                 thumbnails, error>>

\* variant: each markup file is handed to the assembler as soon as it is written
MarkupWriteAndAssemble ==
  /\ pc = "markup"
  /\ i < N
  /\ HasTemplate(TypeOf(slides, i))
  /\ writes' = Append(writes, Write(HtmlPath(i, TypeOf(slides, i)),
                                    HtmlContent(TypeOf(slides, i), BackgroundAt(backgrounds, i)),
                                    clock + 1))
  /\ clock' = clock + 1
  /\ htmlFiles' = Append(htmlFiles, HtmlPath(i, TypeOf(slides, i)))
  /\ i' = i + 1
  /\ assembled' = Append(assembled, HtmlPath(i, TypeOf(slides, i)))
  /\ UNCHANGED <<inputs, ratioLog, settled, pc, tokenData, tokenReads, refIdx, userRefs,
                 consistencyRefs, results, whiskReturn, backgrounds, genResult,
                 inflight, uaData, uaCaller, captionResult, uploadResult, analysis,
                 calls, uaLog, genFailed, thumbnails, error>>

\* Phase 2: the markup of slide i is rendered and written
MarkupWrite ==
  /\ pc = "markup"
  /\ i < N
  /\ HasTemplate(TypeOf(slides, i))
  /\ writes' = Append(writes, Write(HtmlPath(i, TypeOf(slides, i)),
                                    HtmlContent(TypeOf(slides, i), BackgroundAt(backgrounds, i)),
                                    clock + 1))
  /\ clock' = clock + 1
  /\ htmlFiles' = Append(htmlFiles, HtmlPath(i, TypeOf(slides, i)))
  /\ i' = i + 1
  /\ UNCHANGED <<inputs, ratioLog, settled, pc, tokenData, tokenReads, refIdx, userRefs,
                 consistencyRefs, results, whiskReturn, backgrounds, genResult,
                 inflight, uaData, uaCaller, captionResult, uploadResult, analysis,
                 calls, uaLog, genFailed, assembled, thumbnails, error>>

\* Phase 2: fs.writeFileSync throws
MarkupWriteFails ==
  /\ pc = "markup"
  /\ i < N
  /\ HasTemplate(TypeOf(slides, i))
  /\ Reject("writeSlideHtml")
  /\ UNCHANGED <<inputs, ratioLog, settled, tokenData, tokenReads, refIdx, userRefs, consistencyRefs,
                 i, results, whiskReturn, backgrounds, genResult, inflight, uaData,
                 uaCaller, captionResult, uploadResult, analysis, calls, writes,
                 uaLog, genFailed, clock, htmlFiles, assembled, thumbnails>>

\* Phase 2 is over
MarkupExit ==
  /\ pc = "markup"
  /\ i >= N
  /\ i' = 0
  /\ pc' = "assembly"
  /\ UNCHANGED <<inputs, ratioLog, settled, tokenData, tokenReads, refIdx, userRefs, consistencyRefs,
                 results, whiskReturn, backgrounds, genResult, inflight, uaData,
                 uaCaller, captionResult, uploadResult, analysis, calls, writes,
                 uaLog, genFailed, clock, htmlFiles, assembled, thumbnails, error>>

\* variant: the markup files are taken from the end of the list
AssembleSlideFromEnd ==
  /\ pc = "assembly"
  /\ i < Len(htmlFiles)
  /\ assembled' = Append(assembled, htmlFiles[Len(htmlFiles) - i])
  /\ i' = i + 1
  /\ UNCHANGED <<inputs, ratioLog, settled, pc, tokenData, tokenReads, refIdx, userRefs,
                 consistencyRefs, results, whiskReturn, backgrounds, genResult,
                 inflight, uaData, uaCaller, captionResult, uploadResult, analysis,
                 calls, writes, uaLog, genFailed, clock, htmlFiles, thumbnails,
                 error>>

\* Phase 3: html2pptx appends the next markup file to the document
AssembleSlide ==
  /\ pc = "assembly"
  /\ i < Len(htmlFiles)
  /\ assembled' = Append(assembled, htmlFiles[i + 1])
  /\ i' = i + 1
  /\ UNCHANGED <<inputs, ratioLog, settled, pc, tokenData, tokenReads, refIdx, userRefs,
                 consistencyRefs, results, whiskReturn, backgrounds, genResult,
                 inflight, uaData, uaCaller, captionResult, uploadResult, analysis,
                 calls, writes, uaLog, genFailed, clock, htmlFiles, thumbnails,
                 error>>

\* variant: a failed assembly discards the backgrounds
AssembleFailsDiscards ==
  /\ pc = "assembly"
  /\ i < Len(htmlFiles)
  /\ Reject("html2pptx")
  /\ backgrounds' = <<>>
  /\ UNCHANGED <<inputs, ratioLog, settled, tokenData, tokenReads, refIdx, userRefs, consistencyRefs,
                 i, results, whiskReturn, genResult, inflight, uaData,
                 uaCaller, captionResult, uploadResult, analysis, calls, writes,
                 uaLog, genFailed, clock, htmlFiles, assembled, thumbnails>>

\* variant: a slide the assembler rejects is logged and passed over
AssembleFailsSkips ==
  /\ pc = "assembly"
  /\ i < Len(htmlFiles)
  /\ error' = "html2pptx"
  /\ i' = i + 1
  /\ pc' = pc
  /\ UNCHANGED <<inputs, ratioLog, settled, tokenData, tokenReads, refIdx, userRefs, consistencyRefs,
                 results, whiskReturn, backgrounds, genResult, inflight, uaData,
                 uaCaller, captionResult, uploadResult, analysis, calls, writes,
                 uaLog, genFailed, clock, htmlFiles, assembled, thumbnails>>

\* Phase 3: html2pptx rejects
AssembleFails ==
  /\ pc = "assembly"
  /\ i < Len(htmlFiles)
  /\ Reject("html2pptx")
  /\ UNCHANGED <<inputs, ratioLog, settled, tokenData, tokenReads, refIdx, userRefs, consistencyRefs,
                 i, results, whiskReturn, backgrounds, genResult, inflight, uaData,
                 uaCaller, captionResult, uploadResult, analysis, calls, writes,
                 uaLog, genFailed, clock, htmlFiles, assembled, thumbnails>>

\* Phase 3: pptx.writeFile writes presentation.pptx
WritePptx ==
  /\ pc = "assembly"
  /\ i >= Len(htmlFiles)
  /\ writes' = Append(writes, Write(PptxPath,
                                    [kind |-> "pptx", image |-> NoData,
                                     gradient |-> NoGradient, bgImage |-> NoPath],
                                    clock + 1))
  /\ clock' = clock + 1
  /\ pc' = "thumbnails"
  /\ UNCHANGED <<inputs, ratioLog, settled, tokenData, tokenReads, refIdx, userRefs, consistencyRefs,
                 i, results, whiskReturn, backgrounds, genResult, inflight, uaData,
                 uaCaller, captionResult, uploadResult, analysis, calls, uaLog,
                 genFailed, htmlFiles, assembled, thumbnails, error>>

\* Phase 3: pptx.writeFile rejects
WritePptxFails ==
  /\ pc = "assembly"
  /\ i >= Len(htmlFiles)
  /\ Reject("pptx.writeFile")
  /\ UNCHANGED <<inputs, ratioLog, settled, tokenData, tokenReads, refIdx, userRefs, consistencyRefs,
                 i, results, whiskReturn, backgrounds, genResult, inflight, uaData,
                 uaCaller, captionResult, uploadResult, analysis, calls, writes,
                 uaLog, genFailed, clock, htmlFiles, assembled, thumbnails>>

\* variant: a failure of the thumbnail script is not caught
ThumbnailsFatal ==
  /\ pc = "thumbnails"
  /\ \E ok \in BOOLEAN :
       /\ thumbnails' = IF ok THEN "saved" ELSE "failed"
       /\ IF ok THEN pc' = "resolved" /\ error' = error ELSE Reject("execSync")
  /\ UNCHANGED <<inputs, ratioLog, settled, tokenData, tokenReads, refIdx, userRefs, consistencyRefs,
                 i, results, whiskReturn, backgrounds, genResult, inflight, uaData,
                 uaCaller, captionResult, uploadResult, analysis, calls, writes,
                 uaLog, genFailed, clock, htmlFiles, assembled>>

\* Phase 4: the thumbnail script runs, its failure is caught; the build resolves
Thumbnails ==
  /\ pc = "thumbnails"
  /\ \E ok \in BOOLEAN : thumbnails' = IF ok THEN "saved" ELSE "failed"
  /\ pc' = "resolved"
  /\ UNCHANGED <<inputs, ratioLog, settled, tokenData, tokenReads, refIdx, userRefs, consistencyRefs,
                 i, results, whiskReturn, backgrounds, genResult, inflight, uaData,
                 uaCaller, captionResult, uploadResult, analysis, calls, writes,
                 uaLog, genFailed, clock, htmlFiles, assembled, error>>

Next ==
  \/ Begin
  \/ WhiskEntry
  \/ RefSkipMissing
  \/ RefReadFails
  \/ RefUpload
  \/ CaptionComplete
  \/ UploadComplete
  \/ AnalyzeReturn
  \/ RefResume
  \/ AnchorIssue
  \/ AnchorComplete
  \/ AnchorFailed
  \/ AnchorSaveFails
  \/ AnchorSaveAndPromote
  \/ AnchorResume
  \/ SlideIssue
  \/ SlideComplete
  \/ SlideFailed
  \/ SlideFallbackDone
  \/ SlideFallbackFails
  \/ SlideSave
  \/ SlideSaveFails
  \/ WhiskReturnResults
  \/ BackgroundsFromWhisk
  \/ FallbackPassStart
  \/ FallbackPassStep
  \/ FallbackPassFails
  \/ FallbackPassExit
  \/ MarkupSkip
  \/ MarkupWrite
  \/ MarkupWriteFails
  \/ MarkupExit
  \/ AssembleSlide
  \/ AssembleFails
  \/ WritePptx
  \/ WritePptxFails
  \/ Thumbnails

Spec == Init /\ [][Next]_vars

\* ------------------------------------------- the build with steps that end
\* every awaited call, disk operation and collaborator returns or fails, and
\* the event loop runs the continuation: a step that can be taken is taken
SpecLive == Init /\ [][Next]_vars /\ WF_vars(Next)

\* --------------------------------- the build with inherited keys as types
InitProto == InitWith(ProtoTypes)

SpecProto == InitProto /\ [][Next]_vars

\* ------------------------------------------- the client called on its own
\* a caller of generateImage / generateWithReference passes a ratio string,
\* which the client normalizes for the payload
NormalizeCall ==
  /\ Len(ratioLog) < MaxRatioCalls
  /\ \E ratio \in RatioInputs :
       ratioLog' = Append(ratioLog, [ratio |-> ratio, result |-> normalizeAspectRatio(ratio)])
  /\ UNCHANGED <<inputs, pc, tokenData, tokenReads, refIdx,
                 userRefs, consistencyRefs, i, results, whiskReturn, backgrounds,
                 genResult, inflight, uaData, uaCaller, captionResult, uploadResult,
                 analysis, calls, writes, uaLog, genFailed, clock, htmlFiles,
                 assembled, thumbnails, settled, error>>

NextRatio == NormalizeCall

SpecRatio == Init /\ [][NextRatio]_vars

\* ---------------------------------------------------- the build in real time
\* Date.now() moves on while a remote call is awaited: no fetch has a timeout,
\* so a single await can last any time; one step is five minutes here
Tick ==
  /\ inflight # {}
  /\ now < Now0 + MaxElapsed * ExpiryBuffer
  /\ now' = now + ExpiryBuffer
  /\ UNCHANGED <<slides, refPaths, tokenFile, ratioLog, pc, tokenData, tokenReads, refIdx,
                 userRefs, consistencyRefs, i, results, whiskReturn, backgrounds,
                 genResult, inflight, uaData, uaCaller, captionResult, uploadResult,
                 analysis, calls, writes, uaLog, genFailed, clock, htmlFiles,
                 assembled, thumbnails, settled, error>>

NextTime == Next \/ Tick

SpecTime == Init /\ [][NextTime]_vars

\* ------------------------------------------------------------- properties
\* positions in writes of the writes to a path
WritesTo(path) == {j \in 1..Len(writes) : writes[j].path = path}

\* what a path holds: the content of the last write to it
FileContent(path) ==
  writes[CHOOSE j \in WritesTo(path) : \A k \in WritesTo(path) : k <= j].content

\* positions in calls of the generation calls for slide k
GenCallsFor(k) == {c \in 1..Len(calls) : calls[c].op \in GenOps /\ calls[c].slide = k}

\* the background file of slide k holds the gradient fallback of its type
IsFallbackFor(k) ==
  /\ WritesTo(BgPath(k, TypeOf(slides, k))) # {}
  /\ FileContent(BgPath(k, TypeOf(slides, k))) = FallbackContent(TypeOf(slides, k))

\* the background file of slide k holds the image generated for slide k
IsRemoteFor(k) ==
  /\ WritesTo(BgPath(k, TypeOf(slides, k))) # {}
  /\ FileContent(BgPath(k, TypeOf(slides, k))) = RemoteContent(GenData(k))

\* phase 1 of buildPresentation is over ("Backgrounds ready")
BackgroundsReady ==
  \/ pc \in {"markup", "assembly", "thumbnails", "resolved"}
  \/ pc = "rejected" /\ error \in {"writeSlideHtml", "html2pptx", "pptx.writeFile"}

\* loadToken was called and returned null
TokenNull == pc \notin {"start", "whiskEntry"} /\ ~tokenData.ok

\* generateWhiskBackgrounds is in its loop over slides 1..N-1
InSlideLoop == pc \in {"slideLoop", "slideWait", "slideSettled", "slideFallback"}

\* C1: at the end of phase 1 (which is reached only if no disk write of the
\* phase failed) backgrounds has exactly N entries, and entry i is the path
\* bg-<i>-<slides[i].type>.png, holding the image generated for slide i or the
\* fallback of its type.
C1_BackgroundsAligned ==
  BackgroundsReady =>
    /\ Len(backgrounds) = N
    /\ \A k \in 0..(N - 1) :
         /\ k + 1 <= Len(backgrounds)
         /\ backgrounds[k + 1] = BgPath(k, TypeOf(slides, k))
         /\ IsFallbackFor(k) \/ IsRemoteFor(k)

C1_Witness ==
  /\ pc = "resolved"
  /\ whiskReturn = "results"
  /\ N >= 3
  /\ genFailed # {}
  /\ Cardinality(genFailed) < N - 1

\* C2: once loadToken has returned null, no remote call is ever issued, every
\* background written is a fallback, and at the end of phase 1 each of the N
\* entries is the fallback of its slide.
C2_NullTokenAllFallback ==
  TokenNull =>
    /\ calls = <<>>
    /\ inflight = {}
    /\ \A j \in 1..Len(writes) :
         writes[j].path.file = "bg" => writes[j].content.kind = "fallback"
    /\ BackgroundsReady =>
         /\ Len(backgrounds) = N
         /\ \A k \in 0..(N - 1) :
              /\ k + 1 <= Len(backgrounds)
              /\ backgrounds[k + 1] = BgPath(k, TypeOf(slides, k))
              /\ IsFallbackFor(k)

C2_Witness ==
  /\ TokenNull
  /\ tokenFile.exists
  /\ tokenFile.parses
  /\ pc = "resolved"
  /\ N >= 2

\* C3: once the anchor generation has failed, generateWhiskBackgrounds
\* returns null with no generation call for any slide 1..N-1, and at the end
\* of phase 1 the N entries are the fallbacks of slides 0..N-1.
C3_AnchorFailureAllFallback ==
  0 \in genFailed =>
    /\ whiskReturn = "null"
    /\ results = <<>>
    /\ \A c \in 1..Len(calls) : calls[c].op \in GenOps => calls[c].slide = 0
    /\ \A j \in 1..Len(writes) :
         writes[j].path.file = "bg" => writes[j].content.kind = "fallback"
    /\ BackgroundsReady =>
         /\ Len(backgrounds) = N
         /\ \A k \in 0..(N - 1) :
              /\ k + 1 <= Len(backgrounds)
              /\ backgrounds[k + 1] = BgPath(k, TypeOf(slides, k))
              /\ IsFallbackFor(k)

C3_Witness ==
  /\ 0 \in genFailed
  /\ pc = "resolved"
  /\ N >= 2

\* C4: with a valid credential and a successful anchor, the entries pushed so
\* far are fallbacks exactly for the slides whose generation call failed and
\* the generated image of the slide otherwise; when the loop returns, every
\* slide 1..N-1 has had its one generation call whatever failed before it, so
\* a failed call never ends the loop (only a failed disk write rejects).
C4_ExactlyFailedAreFallback ==
  /\ (tokenData.ok /\ (InSlideLoop \/ whiskReturn = "results")) =>
       /\ 0 \notin genFailed
       /\ \A k \in 0..(Len(results) - 1) :
            /\ k < N
            /\ results[k + 1] = BgPath(k, TypeOf(slides, k))
            /\ k \in genFailed => IsFallbackFor(k)
            /\ k \notin genFailed => IsRemoteFor(k)
  /\ InSlideLoop => Len(results) = i
  /\ whiskReturn = "results" =>
       /\ Len(results) = N
       /\ \A k \in 0..(N - 1) : Cardinality(GenCallsFor(k)) = 1
       /\ BackgroundsReady => backgrounds = results

C4_Witness ==
  /\ pc = "resolved"
  /\ whiskReturn = "results"
  /\ N >= 3
  /\ 1 \in genFailed
  /\ 2 \notin genFailed
  /\ IsFallbackFor(1)
  /\ IsRemoteFor(2)

\* positions in calls of all generation calls
GenCalls == {c \in 1..Len(calls) : calls[c].op \in GenOps}

\* uploadAndAnalyze has returned with this success flag for a payload
Analyzed(data, success) ==
  \E j \in 1..Len(uaLog) : uaLog[j] = [data |-> data, success |-> success]

\* C5: generation is sequential in increasing slide index: a generation call
\* in flight is the only remote call in flight, the calls were issued in
\* strictly increasing slide index, and the call for slide k >= 1 was issued
\* after the background file of slide k-1 (saved image or fallback) was written.
C5_SequentialGeneration ==
  /\ \A c \in inflight : calls[c].op \in GenOps => inflight = {c}
  /\ \A c1, c2 \in GenCalls : c1 < c2 => calls[c1].slide < calls[c2].slide
  /\ \A c \in GenCalls :
       calls[c].slide >= 1 =>
         /\ GenCallsFor(calls[c].slide - 1) # {}
         /\ \E j \in WritesTo(BgPath(calls[c].slide - 1, TypeOf(slides, calls[c].slide - 1))) :
              writes[j].at < calls[c].at

C5_Witness ==
  /\ pc = "slideWait"
  /\ i = 2
  /\ 1 \in genFailed
  /\ \E c \in inflight : calls[c].op \in GenOps /\ calls[c].slide = 2

\* C6: the anchor call is generateWithReference iff userRefs is non-empty and
\* the call of a slide i >= 1 is generateWithReference iff consistencyRefs is
\* non-empty, each passing that list; generateWithReference never gets an
\* empty list and generateImage is used exactly when the list is empty.
C6_ReferenceCallIffRefs ==
  \A c \in GenCalls :
    LET list == IF calls[c].slide = 0 THEN userRefs ELSE consistencyRefs
    IN /\ calls[c].op = "generateWithReference" <=> Len(list) > 0
       /\ calls[c].op = "generateWithReference" => calls[c].refs = list /\ Len(calls[c].refs) >= 1
       /\ calls[c].op = "generateImage" => calls[c].refs = <<>>

C6_Witness ==
  /\ pc = "resolved"
  /\ \E c \in GenCalls : calls[c].slide = 0 /\ calls[c].op = "generateImage"
  /\ \E c \in GenCalls : calls[c].slide = 1 /\ calls[c].op = "generateWithReference"

\* C7: every generateWithReference call carries the model GEM_PIX when it has
\* exactly one reference and R2I when it has two or more.
C7_ModelByReferenceCount ==
  \A c \in GenCalls :
    calls[c].op = "generateWithReference" =>
      /\ Len(calls[c].refs) = 1 => calls[c].model = "GEM_PIX"
      /\ Len(calls[c].refs) >= 2 => calls[c].model = "R2I"

C7_Witness ==
  /\ \E c \in GenCalls : calls[c].op = "generateWithReference" /\ Len(calls[c].refs) = 1
  /\ \E c \in GenCalls : calls[c].op = "generateWithReference" /\ Len(calls[c].refs) = 2

\* C8: with no caller references and the anchor upload succeeded (as it does
\* when every remote call succeeds), the generation call of every slide
\* i >= 1 passes exactly one reference: the style reference whose media id
\* is that of the uploaded anchor image.
C8_OnlyAnchorReference ==
  (Len(refPaths) = 0 /\ Analyzed(GenData(0), TRUE)) =>
    \A c \in GenCalls :
      calls[c].slide >= 1 =>
        /\ calls[c].op = "generateWithReference"
        /\ Len(calls[c].refs) = 1
        /\ calls[c].refs[1].mediaId = MediaIdOf(GenData(0))
        /\ calls[c].refs[1].category = "MEDIA_CATEGORY_STYLE"

C8_Witness ==
  /\ pc = "resolved"
  /\ Len(refPaths) = 0
  /\ genFailed = {}
  /\ Analyzed(GenData(0), TRUE)
  /\ \E c \in GenCalls :
       /\ calls[c].slide = 2
       /\ calls[c].refs = <<[category |-> "MEDIA_CATEGORY_STYLE",
                              mediaId |-> MediaIdOf(GenData(0)),
                              caption |-> CaptionOf(GenData(0))]>>

\* C9: when the upload-and-analyze of the anchor image has failed, the phase
\* does not return null, the file of slide 0 keeps the generated anchor,
\* consistencyRefs is userRefs, every call for a slide i >= 1 passes userRefs
\* (generateImage when it is empty), and a returned results has had a call
\* for every slide 1..N-1.
C9_AnchorUploadFailureNotFatal ==
  Analyzed(GenData(0), FALSE) =>
    /\ whiskReturn # "null"
    /\ 0 \notin genFailed
    /\ IsRemoteFor(0)
    /\ pc # "anchorResume" => consistencyRefs = userRefs
    /\ \A c \in GenCalls :
         calls[c].slide >= 1 =>
           /\ calls[c].refs = userRefs
           /\ userRefs = <<>> => calls[c].op = "generateImage"
    /\ whiskReturn = "results" => \A k \in 1..(N - 1) : GenCallsFor(k) # {}

C9_Witness ==
  /\ Analyzed(GenData(0), FALSE)
  /\ pc = "resolved"
  /\ N >= 3
  /\ userRefs = <<>>
  /\ \E c \in GenCalls : calls[c].slide = 2 /\ calls[c].op = "generateImage"

\* media ids of the first k caller paths that exist and were analyzed with success
RECURSIVE IngestedIds(_)
IngestedIds(k) ==
  IF k = 0 THEN <<>>
  ELSE IF refPaths[k] # "missing" /\ Analyzed(FileData(k), TRUE)
       THEN Append(IngestedIds(k - 1), MediaIdOf(FileData(k)))
       ELSE IngestedIds(k - 1)

\* C10: userRefs holds, in the caller's order, one style reference for each
\* path handled so far that exists and whose uploadAndAnalyze returned
\* success, and nothing else; after ingestion that covers all of refPaths.
C10_UserRefsSubsequence ==
  tokenData.ok =>
    LET handled == IF refIdx - 1 <= Len(refPaths) THEN refIdx - 1 ELSE Len(refPaths)
    IN /\ [k \in 1..Len(userRefs) |-> userRefs[k].mediaId] = IngestedIds(handled)
       /\ \A k \in 1..Len(userRefs) : userRefs[k].category = "MEDIA_CATEGORY_STYLE"

C10_Witness ==
  /\ pc = "resolved"
  /\ Len(refPaths) = 3
  /\ Analyzed(FileData(1), TRUE)
  /\ Analyzed(FileData(2), FALSE)
  /\ Analyzed(FileData(3), TRUE)
  /\ Len(userRefs) = 2

\* C11: a caller-supplied reference file that is missing or unreadable never
\* aborts the build: the loop goes past it (towards anchor generation) and
\* the path contributes nothing to userRefs.
C11_RefProblemNeverAborts ==
  \A k \in 1..Len(refPaths) :
    refPaths[k] # "ok" =>
      /\ ~(pc = "rejected" /\ refIdx = k)
      /\ refIdx > k => \A u \in 1..Len(userRefs) : userRefs[u].mediaId # MediaIdOf(FileData(k))

\* uploadAndAnalyze has returned and its caller has not yet consumed the result
AnalyzeReturned == pc \in {"refResume", "anchorResume"}

\* the response with which the op call of the current uploadAndAnalyze settled
SettledResp(op) ==
  settled[CHOOSE k \in 1..Len(settled) : settled[k].op = op].resp

\* C12: uploadAndAnalyze returns success exactly when the upload call
\* succeeded, whatever the caption call did; with the upload succeeded and the
\* caption call failed the result is a success carrying the upload's media id
\* and the empty caption.
C12_SuccessIffUpload ==
  AnalyzeReturned =>
    LET up == SettledResp("uploadReference")
        cap == SettledResp("getCaptionForImage")
        data == uaLog[Len(uaLog)].data
    IN /\ analysis.success <=> up = "ok"
       /\ analysis.success = uploadResult.success
       /\ up = "ok" =>
            /\ analysis.mediaId = MediaIdOf(data)
            /\ analysis.mediaId = uploadResult.mediaId
            /\ analysis.caption = IF cap = "ok" THEN CaptionOf(data) ELSE ""
       /\ up = "ok" /\ cap \in {"neterr", "httperr"} =>
            /\ ~captionResult.success
            /\ analysis.success
            /\ analysis.caption = ""

C12_Witness ==
  /\ AnalyzeReturned
  /\ SettledResp("uploadReference") = "ok"
  /\ SettledResp("getCaptionForImage") = "httperr"
  /\ analysis.success
  /\ analysis.caption = ""

\* the operations of the calls that are still in flight
InflightOps == {calls[c].op : c \in inflight}

\* the operations of the calls settled since the last continuation
SettledOps == {settled[k].op : k \in 1..Len(settled)}

\* C13: inside uploadAndAnalyze the caption call and the upload call of the
\* same payload are both issued before either settles (each is in flight or
\* settled, never not yet issued); the combined result exists only when both
\* have settled; and it is the same function of the two responses whichever
\* settled first.
C13_BothIssuedBothAwaited ==
  /\ pc = "uaWait" =>
       /\ Len(calls) >= 2
       /\ calls[Len(calls) - 1].op = "getCaptionForImage"
       /\ calls[Len(calls)].op = "uploadReference"
       /\ calls[Len(calls) - 1].data = uaData /\ calls[Len(calls)].data = uaData
       /\ calls[Len(calls)].at = calls[Len(calls) - 1].at + 1
       /\ InflightOps \cup SettledOps = {"getCaptionForImage", "uploadReference"}
       /\ InflightOps \cap SettledOps = {}
       /\ Len(settled) + Cardinality(inflight) = 2
       /\ analysis = NoAnalysis
  /\ AnalyzeReturned =>
       /\ inflight = {}
       /\ Len(settled) = 2
       /\ SettledOps = {"getCaptionForImage", "uploadReference"}
       /\ LET data == uaLog[Len(uaLog)].data
          IN analysis = AnalyzeResult(CaptionResult(SettledResp("getCaptionForImage"), data),
                                      UploadResult(SettledResp("uploadReference"), data))

\* the upload settled before the caption call, and the result was produced
C13_Witness ==
  /\ AnalyzeReturned
  /\ Len(settled) = 2
  /\ settled[1].op = "uploadReference"
  /\ settled[2].op = "getCaptionForImage"
  /\ analysis.success

\* the reasons for which the build can be rejected: all are local file or
\* assembly steps, none is a remote call
LocalFailures ==
  {"readFileSync", "saveBase64Image", "sharp.toFile", "writeSlideHtml",
   "html2pptx", "pptx.writeFile"}

\* C14: the four client functions never raise on a network error, a non-OK
\* status or a response without the expected data: the caller goes on with a
\* result that has success = FALSE and a non-empty error (for
\* getCaptionForImage a response without candidates gives success = TRUE and
\* the empty caption), and the build is never rejected by a remote call.
C14_ClientCallsNeverRaise ==
  /\ pc = "rejected" => error \in LocalFailures
  /\ pc \in {"anchorSettled", "slideSettled"} =>
       LET last == settled[Len(settled)]
       IN /\ last.op \in GenOps
          /\ genResult.success <=> last.resp = "ok"
          /\ last.resp # "ok" => genResult.error # "" /\ genResult.images = <<>>
  /\ (pc = "uaWait" \/ AnalyzeReturned) =>
       /\ "uploadReference" \in SettledOps =>
            LET up == SettledResp("uploadReference")
            IN /\ uploadResult.success <=> up = "ok"
               /\ up # "ok" => uploadResult.error # ""
       /\ "getCaptionForImage" \in SettledOps =>
            LET cap == SettledResp("getCaptionForImage")
            IN /\ captionResult.success <=> cap \in {"ok", "nodata"}
               /\ cap \in {"neterr", "httperr"} => captionResult.error # ""
               /\ cap = "nodata" => captionResult.caption = ""

\* a generateWithReference call got a response without image data after an
\* uploadAndAnalyze whose upload failed, and returned a failure result
C14_Witness ==
  /\ pc = "slideSettled"
  /\ settled[Len(settled)] = [op |-> "generateWithReference", resp |-> "nodata"]
  /\ ~genResult.success
  /\ genResult.error = "No image data in response"
  /\ \E k \in 1..Len(uaLog) : ~uaLog[k].success

\* the credential file is one for which loadToken has to return null at time t
Unusable(file, t) ==
  \/ ~file.exists
  \/ ~file.parses
  \/ file.accessToken = ""
  \/ file.expiresAt = 0
  \/ file.expiresAt < t + ExpiryBuffer

\* C15: loadToken returns null and does not raise when the credential file is
\* missing, is not parseable, lacks accessToken or expiresAt, or expires less
\* than five minutes after the current time: the build goes on without the
\* service (no remote call; phase 1 can only fail in the fallback write).
C15_LoadTokenNullNeverRaises ==
  /\ \A f \in TokenFiles : Unusable(f, now) => loadToken(f, now) = NullToken
  /\ (tokenReads = 1 /\ Unusable(tokenFile, now)) =>
       /\ tokenData = NullToken
       /\ pc # "whiskEntry"
       /\ whiskReturn = "null"
       /\ calls = <<>>
       /\ pc = "rejected" => error \in LocalFailures \ {"readFileSync", "saveBase64Image"}

\* the credential has 1 ms less than five minutes left: null, build completed
C15_Witness ==
  /\ tokenFile.exists /\ tokenFile.parses /\ tokenFile.accessToken # ""
  /\ tokenFile.expiresAt = now + ExpiryBuffer - 1
  /\ tokenData = NullToken
  /\ tokenReads = 1
  /\ pc = "resolved"

\* C16: a credential that loadToken returned does not expire during the
\* build's remote calls: every remote call is issued at a time before the
\* credential's expiresAt.
C16_CallsBeforeExpiry ==
  \A c \in 1..Len(calls) : calls[c].time < tokenData.expiresAt

\* C17: the credential is read once per build, before any remote call, and
\* not again: from the read on tokenData is what that read returned, and
\* every remote call carries its access token.
C17_TokenReadOnce ==
  /\ tokenReads <= 1
  /\ tokenReads = 0 <=> pc \in {"start", "whiskEntry"}
  /\ calls # <<>> => tokenReads = 1 /\ tokenData.ok
  /\ tokenReads = 1 => tokenData = loadToken(tokenFile, Now0)
  /\ \A c \in 1..Len(calls) :
       /\ calls[c].token = tokenData.accessToken
       /\ calls[c].token = tokenFile.accessToken

\* a completed build with references, anchor and slide calls on one read
C17_Witness ==
  /\ pc = "resolved"
  /\ tokenReads = 1
  /\ Len(calls) >= 5
  /\ \E c \in 1..Len(calls) : calls[c].op = "uploadReference" /\ calls[c].token = "tok"
  /\ \E c \in 1..Len(calls) : calls[c].op = "generateWithReference" /\ calls[c].token = "tok"

\* the phase of buildPresentation a control point belongs to (1 backgrounds,
\* 2 markup, 3 assembly, 4 thumbnails, 5 returned); a rejected build stays in
\* the phase whose step failed
PhaseOf(p, e) ==
  IF p = "markup" THEN 2
  ELSE IF p = "assembly" THEN 3
  ELSE IF p = "thumbnails" THEN 4
  ELSE IF p = "resolved" THEN 5
  ELSE IF p = "rejected"
       THEN IF e = "writeSlideHtml" THEN 2
            ELSE IF e \in {"html2pptx", "pptx.writeFile"} THEN 3
            ELSE 1
  ELSE 1

\* positions in writes of the writes of one kind of file
WritesOfKind(kind) == {j \in 1..Len(writes) : writes[j].path.file = kind}

\* what has happened so far fits the order of the phases
PhaseOrderKept ==
  /\ \A b \in WritesOfKind("bg"), h \in WritesOfKind("slide") :
       b < h /\ writes[b].at < writes[h].at
  /\ \A h \in WritesOfKind("slide"), f \in WritesOfKind("presentation") :
       h < f /\ writes[h].at < writes[f].at
  /\ \A c \in 1..Len(calls), h \in WritesOfKind("slide") : calls[c].at < writes[h].at
  /\ PhaseOf(pc, error) = 1 => WritesOfKind("slide") = {} /\ htmlFiles = <<>>
  /\ WritesOfKind("slide") # {} =>
       /\ Len(backgrounds) = N
       /\ \A k \in 0..(N - 1) : WritesTo(BgPath(k, TypeOf(slides, k))) # {}
  /\ PhaseOf(pc, error) <= 2 => assembled = <<>> /\ WritesOfKind("presentation") = {}
  /\ assembled # <<>> =>
       \A k \in 0..(N - 1) :
         TypeOf(slides, k) \in KnownTypes =>
           /\ WritesTo(HtmlPath(k, TypeOf(slides, k))) # {}
           /\ \E j \in 1..Len(htmlFiles) : htmlFiles[j] = HtmlPath(k, TypeOf(slides, k))
  /\ WritesOfKind("presentation") # {} => assembled = htmlFiles
  /\ PhaseOf(pc, error) <= 3 => thumbnails = "none"
  /\ thumbnails # "none" => Cardinality(WritesOfKind("presentation")) = 1

\* a step leaves the phase as it is or moves to the next one
PhaseStep ==
  /\ PhaseOf(pc', error') >= PhaseOf(pc, error)
  /\ PhaseOf(pc', error') <= PhaseOf(pc, error) + 1
  /\ pc \in {"resolved", "rejected"} => pc' = pc

\* C18: a build passes through backgrounds, markup, assembly, thumbnails in
\* that order and never goes back: no markup file is written before all N
\* backgrounds are decided, no slide is given to the assembler before all
\* markup files are written, thumbnails are made only after the presentation
\* file is written, and no step returns to an earlier phase.
C18_PhasesInOrder == [](PhaseOrderKept) /\ [][PhaseStep]_vars

\* all four phases done, with remote backgrounds and two markup files
C18_Witness ==
  /\ pc = "resolved"
  /\ thumbnails # "none"
  /\ Len(assembled) >= 2
  /\ calls # <<>>
  /\ WritesOfKind("presentation") # {}

\* the list phase 1 decided: what generateWhiskBackgrounds returned, or the
\* paths of the fallback pass
Phase1List == [k \in 1..N |-> BgPath(k - 1, TypeOf(slides, k - 1))]

\* a step taken after phase 1 leaves the backgrounds alone: the list, the
\* background files and the remote calls made are all as they were
BackgroundsKept ==
  PhaseOf(pc, error) >= 2 =>
    /\ backgrounds' = backgrounds
    /\ results' = results
    /\ calls' = calls
    /\ \A k \in 0..(N - 1) :
         WritesTo(BgPath(k, TypeOf(slides, k)))' = WritesTo(BgPath(k, TypeOf(slides, k)))
    /\ WritesOfKind("bg")' = WritesOfKind("bg")

\* C19: once phase 1 has decided the backgrounds the later phases never
\* change them, whether they succeed or fail, and a build that succeeds
\* returns the list phase 1 decided.
C19_BackgroundsFrozen ==
  /\ [][BackgroundsKept]_vars
  /\ [](PhaseOf(pc, error) >= 2 =>
          /\ backgrounds = Phase1List
          /\ whiskReturn = "results" => backgrounds = results)

\* a build that returned after remote backgrounds and markup
C19_Witness ==
  /\ pc = "resolved"
  /\ whiskReturn = "results"
  /\ backgrounds = results
  /\ Len(backgrounds) >= 2
  /\ htmlFiles # <<>>

\* C20: a slide whose type is not one of title, content, data, features,
\* closing is skipped in the markup phase without aborting the build: no
\* markup file is written for it and it does not stop the markup phase, every
\* other slide has its markup once the phase is over, and the build goes on
\* to assembly.
C20_UnknownTypeSkipped ==
  \A k \in 0..(N - 1) :
    LET type == TypeOf(slides, k)
    IN IF type \notin KnownTypes
       THEN /\ WritesTo(HtmlPath(k, type)) = {}
            /\ \A j \in 1..Len(htmlFiles) : htmlFiles[j] # HtmlPath(k, type)
            /\ \A j \in 1..Len(assembled) : assembled[j] # HtmlPath(k, type)
            /\ ~(pc = "rejected" /\ error = "writeSlideHtml" /\ i = k)
       ELSE PhaseOf(pc, error) >= 3 =>
              /\ WritesTo(HtmlPath(k, type)) # {}
              /\ \E j \in 1..Len(htmlFiles) : htmlFiles[j] = HtmlPath(k, type)

\* the markup paths of the first k slides that have one of the known types,
\* in the order of the input list
RECURSIVE KnownMarkup(_)
KnownMarkup(k) ==
  IF k = 0 THEN <<>>
  ELSE IF TypeOf(slides, k - 1) \in KnownTypes
       THEN Append(KnownMarkup(k - 1), HtmlPath(k - 1, TypeOf(slides, k - 1)))
       ELSE KnownMarkup(k - 1)

ReturnValue == [pptxPath |-> PptxPath, backgrounds |-> backgrounds, htmlFiles |-> htmlFiles]

\* C22: a failure of the thumbnail generator never fails the build: once the
\* thumbnail step has run, failed or not, the build has resolved without
\* error, and it returns the presentation path, the backgrounds of phase 1
\* and the markup list of phase 2, which are the same in both outcomes.
C22_ThumbnailFailureNotFatal ==
  thumbnails # "none" =>
    /\ pc = "resolved"
    /\ error = ""
    /\ ReturnValue = [pptxPath |-> PptxPath, backgrounds |-> Phase1List,
                      htmlFiles |-> KnownMarkup(N)]
    /\ Cardinality(WritesOfKind("presentation")) = 1
    /\ assembled = htmlFiles

\* the thumbnail step failed after remote backgrounds and the build resolved
C22_Witness ==
  /\ thumbnails = "failed"
  /\ pc = "resolved"
  /\ whiskReturn = "results"
  /\ htmlFiles # <<>>

\* the background of every slide and every markup file of htmlFiles is on disk
FilesInPlace ==
  /\ \A k \in 0..(N - 1) : WritesTo(BgPath(k, TypeOf(slides, k))) # {}
  /\ \A j \in 1..Len(htmlFiles) : WritesTo(htmlFiles[j]) # {}

\* C23: a failure of the assembler on a slide, or of writing the presentation
\* file, aborts the build: the build is rejected with that error, no later
\* slide is assembled, no presentation file exists, the thumbnail step is not
\* run, and the background and markup files written before stay in place.
C23_AssemblyFailureAborts ==
  /\ error = "html2pptx" =>
       /\ pc = "rejected"
       /\ i < Len(htmlFiles)
       /\ Len(assembled) = i
       /\ assembled = SubSeq(htmlFiles, 1, i)
       /\ WritesOfKind("presentation") = {}
       /\ thumbnails = "none"
       /\ FilesInPlace
  /\ error = "pptx.writeFile" =>
       /\ pc = "rejected"
       /\ assembled = htmlFiles
       /\ WritesOfKind("presentation") = {}
       /\ thumbnails = "none"
       /\ FilesInPlace

\* the assembler failed on the second of three markup files
C23_Witness ==
  /\ pc = "rejected"
  /\ error = "html2pptx"
  /\ Len(htmlFiles) = 3
  /\ Len(assembled) = 1
  /\ Cardinality(WritesOfKind("bg")) >= 3

\* C24: a failure to write a fallback image is fatal, in the per-slide
\* fallback of generateWhiskBackgrounds as in the full-deck fallback pass:
\* the build is rejected with that error, no background is produced for the
\* failing slide or any later one, no remote call is left in flight, and no
\* markup or presentation file is written.
C24_FallbackWriteFailureFatal ==
  error = "sharp.toFile" =>
    /\ pc = "rejected"
    /\ i < N
    /\ \A k \in i..(N - 1) : WritesTo(BgPath(k, TypeOf(slides, k))) = {}
    /\ \A j \in WritesOfKind("bg") : writes[j].path.index < i
    /\ \A c \in 1..Len(calls) : calls[c].op \in GenOps => calls[c].slide <= i
    /\ inflight = {}
    /\ Len(backgrounds) <= i
    /\ htmlFiles = <<>> /\ assembled = <<>>
    /\ WritesOfKind("slide") = {} /\ WritesOfKind("presentation") = {}
    /\ thumbnails = "none"
    /\ whiskReturn \in {"pending", "null"}
    /\ whiskReturn = "pending" => i \in genFailed

\* the fallback write of slide 2 failed inside generateWhiskBackgrounds
C24_Witness ==
  /\ pc = "rejected"
  /\ error = "sharp.toFile"
  /\ whiskReturn = "pending"
  /\ i = 2
  /\ N = 4
  /\ Cardinality(WritesOfKind("bg")) = 2

\* C25: only a failed write of a fallback image or a failure of assembly
\* aborts the build; every other failure (credential, remote calls, reference
\* files, saving a generated image, unknown type, thumbnails) still lets the
\* build complete.
C25_OnlyFallbackOrAssemblyAborts ==
  pc = "rejected" => error \in {"sharp.toFile", "html2pptx", "pptx.writeFile"}

\* the palette the fallback is specified to use for a type
PaletteOf(slideType) ==
  IF slideType \in KnownTypes THEN Gradients[slideType] ELSE Gradients.content

\* C26: the gradient of a fallback background depends on the slide type
\* alone: it is the palette entry of the type for the five known types and
\* the content palette for every other type, the same for every call with
\* that type, and the index only appears in the file name.
C26_GradientByTypeAlone ==
  /\ \A j \in WritesOfKind("bg") :
       writes[j].content.kind = "fallback" =>
         /\ writes[j].content.gradient = PaletteOf(writes[j].path.type)
         /\ writes[j].path = BgPath(writes[j].path.index, TypeOf(slides, writes[j].path.index))
  /\ \A j, k \in WritesOfKind("bg") :
       (/\ writes[j].content.kind = "fallback"
        /\ writes[k].content.kind = "fallback"
        /\ writes[j].path.type = writes[k].path.type) =>
         writes[j].content = writes[k].content

\* C27: normalizeAspectRatio maps 16:9 and 4:3 to landscape, 9:16 and 3:4 to
\* portrait, 1:1 to square, and every string that is not a key of the table
\* to square.
C27_AspectRatioNormalized ==
  \A k \in 1..Len(ratioLog) :
    LET ratio == ratioLog[k].ratio
        result == ratioLog[k].result
    IN /\ ratio \in {"16:9", "4:3"} => result = "IMAGE_ASPECT_RATIO_LANDSCAPE"
       /\ ratio \in {"9:16", "3:4"} => result = "IMAGE_ASPECT_RATIO_PORTRAIT"
       /\ ratio = "1:1" => result = "IMAGE_ASPECT_RATIO_SQUARE"
       /\ ratio \notin DOMAIN ASPECT_RATIO_MAP => result = "IMAGE_ASPECT_RATIO_SQUARE"

\* C28: the output directory is write-once per build: no path (background,
\* markup or presentation) is written twice, and the full-deck fallback pass
\* runs only when generateWhiskBackgrounds wrote no background, so a fallback
\* never replaces a generated image.
C28_WriteOnce ==
  /\ \A j, k \in 1..Len(writes) : writes[j].path = writes[k].path => j = k
  /\ whiskReturn = "null" =>
       /\ results = <<>>
       /\ \A j \in WritesOfKind("bg") : writes[j].content.kind = "fallback"
  /\ pc = "whiskDone" /\ whiskReturn = "null" => writes = <<>>
  /\ \A j \in WritesOfKind("bg") :
       writes[j].content.kind = "remote" => FileContent(writes[j].path) = writes[j].content

\* a finished build whose backgrounds mix generated images and fallbacks
C28_Witness ==
  /\ pc = "resolved"
  /\ whiskReturn = "results"
  /\ N >= 3
  /\ genFailed # {}
  /\ \E j \in WritesOfKind("bg") : writes[j].content.kind = "fallback"
  /\ \E j \in WritesOfKind("bg") : writes[j].content.kind = "remote" /\ writes[j].path.index > 0
  /\ WritesOfKind("slide") # {}

\* C29: loadToken returns a credential exactly when the file parses, has a
\* non-empty accessToken and a non-zero expiresAt, and expiresAt is at least
\* now + 300000; with 299999 ms left it returns null, with 300000 ms left it
\* returns the credential of the file.
C29_CredentialIffFiveMinutes ==
  /\ \A f \in TokenFiles :
       LET usable == /\ f.exists /\ f.parses
                     /\ f.accessToken # "" /\ f.expiresAt # 0
                     /\ f.expiresAt >= now + ExpiryBuffer
       IN /\ loadToken(f, now).ok <=> usable
          /\ usable => /\ loadToken(f, now).accessToken = f.accessToken
                       /\ loadToken(f, now).expiresAt = f.expiresAt
          /\ f.expiresAt = now + ExpiryBuffer - 1 => ~loadToken(f, now).ok
          /\ (f.expiresAt = now + ExpiryBuffer /\ f.parses /\ f.accessToken # "") =>
               loadToken(f, now).ok
  /\ tokenReads = 1 =>
       /\ tokenData = loadToken(tokenFile, now)
       /\ tokenData.ok <=> (tokenFile.parses /\ tokenFile.accessToken # ""
                            /\ tokenFile.expiresAt >= now + ExpiryBuffer)
       /\ calls # <<>> => tokenFile.expiresAt >= now + ExpiryBuffer

\* the credential with exactly five minutes left was returned and used
C29_Witness ==
  /\ tokenReads = 1
  /\ tokenFile.expiresAt = now + ExpiryBuffer
  /\ tokenData.ok
  /\ tokenData.expiresAt = now + ExpiryBuffer
  /\ calls # <<>>

\* a generation result has one of the two shapes: success with images and no
\* error, or failure with an error and no images
WellShaped(result) ==
  \/ result.success /\ result.images # <<>> /\ result.error = ""
  \/ ~result.success /\ result.images = <<>> /\ result.error # ""

\* C30: every result of generateImage and generateWithReference is a success
\* with a non-empty images list or a failure with an error, never both and
\* never neither, and the orchestrator takes images[0] only from a success:
\* every image it saves or uploads is the image of a call that got one.
C30_ResultShapeAndGuardedRead ==
  /\ \A resp \in Responses : WellShaped(GenResult(resp, GenData(0)))
  /\ pc \in {"anchorSettled", "slideSettled"} =>
       /\ WellShaped(genResult)
       /\ genResult.success <=> settled[Len(settled)].resp = "ok"
  /\ \A j \in WritesOfKind("bg") :
       writes[j].content.kind = "remote" =>
         /\ writes[j].content.image = GenData(writes[j].path.index)
         /\ writes[j].path.index \notin genFailed
  /\ \A c \in 1..Len(calls) :
       (calls[c].op \notin GenOps /\ calls[c].data.src = "gen") =>
         /\ calls[c].data = GenData(0)
         /\ 0 \notin genFailed
         /\ WritesTo(BgPath(0, TypeOf(slides, 0))) # {}

\* a slide call failed, its fallback was written, the next slide was saved
C30_Witness ==
  /\ pc = "resolved"
  /\ 1 \in genFailed
  /\ N >= 3
  /\ 2 \notin genFailed
  /\ FileContent(BgPath(2, TypeOf(slides, 2))) = RemoteContent(GenData(2))
  /\ FileContent(BgPath(1, TypeOf(slides, 1))).kind = "fallback"

\* positions in calls of the two calls of the anchor's uploadAndAnalyze:
\* the upload and caption calls issued after the ingestion of the references
PromotionCalls ==
  {c \in 1..Len(calls) :
     /\ calls[c].op \notin GenOps
     /\ \E g \in GenCalls : calls[g].slide = 0 /\ g < c}

\* C31: anchor promotion uploads the image that was saved as the background
\* of slide 0, only after that image has been saved, and it is over (with
\* success or failure) before the generation call of slide 1 is issued.
C31_AnchorPromotedAfterSaveBeforeSlide1 ==
  /\ \A c \in PromotionCalls :
       /\ calls[c].data = GenData(0)
       /\ \E j \in WritesTo(BgPath(0, TypeOf(slides, 0))) :
            /\ writes[j].content = RemoteContent(calls[c].data)
            /\ writes[j].at < calls[c].at
  /\ \A c \in 1..Len(calls) :
       calls[c].data.src = "gen" => c \in PromotionCalls
  /\ \A g \in GenCalls :
       calls[g].slide >= 1 =>
         /\ Cardinality(PromotionCalls) = 2
         /\ \A c \in PromotionCalls : c < g /\ calls[c].at < calls[g].at /\ c \notin inflight
         /\ Analyzed(GenData(0), TRUE) \/ Analyzed(GenData(0), FALSE)
  /\ (pc = "uaWait" /\ uaCaller = "anchor") =>
       /\ uaData = GenData(0)
       /\ IsRemoteFor(0)
       /\ \A g \in GenCalls : calls[g].slide = 0

\* the promotion failed and the call of slide 1 was issued after it
C31_Witness ==
  /\ pc = "slideWait"
  /\ i = 1
  /\ Analyzed(GenData(0), FALSE)
  /\ Len(refPaths) >= 1
  /\ Analyzed(FileData(1), TRUE)
  /\ Cardinality(PromotionCalls) = 2

\* the list lines 341-348 build: userRefs, then the anchor reference when the
\* anchor upload succeeded
ExpectedRefs(list) ==
  IF Analyzed(GenData(0), TRUE)
  THEN /\ Len(list) = Len(userRefs) + 1
       /\ SubSeq(list, 1, Len(userRefs)) = userRefs
       /\ list[Len(list)].mediaId = MediaIdOf(GenData(0))
       /\ list[Len(list)].category = "MEDIA_CATEGORY_STYLE"
  ELSE list = userRefs

\* C32: the references used for slides 1..N-1 are fixed when anchor promotion
\* is over: userRefs followed by the anchor reference if the anchor upload
\* succeeded, userRefs alone otherwise; every call of a slide i >= 1 passes
\* that same list, whatever the outcome of the slides before it.
C32_ReferencesFixedAfterPromotion ==
  /\ \A g \in GenCalls :
       calls[g].slide >= 1 =>
         /\ calls[g].refs = consistencyRefs
         /\ ExpectedRefs(calls[g].refs)
         /\ \A r \in 1..Len(calls[g].refs) :
              calls[g].refs[r].mediaId.media.src = "gen" =>
                calls[g].refs[r].mediaId = MediaIdOf(GenData(0))
  /\ \A g, h \in GenCalls :
       (calls[g].slide >= 1 /\ calls[h].slide >= 1) => calls[g].refs = calls[h].refs
  /\ (InSlideLoop \/ whiskReturn = "results") => ExpectedRefs(consistencyRefs)

\* slide 1 failed, slide 2 succeeded, slide 3 was called with the same list
C32_Witness ==
  /\ N = 4
  /\ 1 \in genFailed
  /\ IsRemoteFor(2)
  /\ \E g \in GenCalls : calls[g].slide = 3 /\ Len(calls[g].refs) = 1
  /\ Analyzed(GenData(0), TRUE)

CallsOf(op) == {c \in 1..Len(calls) : calls[c].op = op}

\* C34: no remote call is retried: each slide index gets at most one
\* generation call (at most N in all), at most one uploadAndAnalyze is made
\* per caller reference plus one for the anchor, and once
\* generateWhiskBackgrounds has returned null no remote call is made: none is
\* in flight and every call precedes everything the build does afterwards.
C34_NoRetry ==
  /\ \A k \in 0..(N - 1) : Cardinality(GenCallsFor(k)) <= 1
  /\ \A g \in GenCalls : calls[g].slide \in 0..(N - 1)
  /\ Cardinality(GenCalls) <= N
  /\ Cardinality(CallsOf("uploadReference")) <= Len(refPaths) + 1
  /\ Cardinality(CallsOf("getCaptionForImage")) <= Len(refPaths) + 1
  /\ Len(uaLog) <= Len(refPaths) + 1
  /\ \A c, d \in CallsOf("uploadReference") : calls[c].data = calls[d].data => c = d
  /\ \A c, d \in CallsOf("getCaptionForImage") : calls[c].data = calls[d].data => c = d
  /\ Len(calls) <= N + 2 * (Len(refPaths) + 1)
  /\ whiskReturn = "null" =>
       /\ inflight = {}
       /\ Cardinality(GenCalls) <= 1
       /\ CallsOf("uploadReference") = {c \in CallsOf("uploadReference") : calls[c].data.src = "file"}
       /\ \A c \in 1..Len(calls), w \in 1..Len(writes) : calls[c].at < writes[w].at

\* references were uploaded, the anchor failed, and the build completed on
\* fallbacks without another call
C34_Witness ==
  /\ pc = "resolved"
  /\ whiskReturn = "null"
  /\ Len(refPaths) >= 2
  /\ Cardinality(CallsOf("uploadReference")) = 2
  /\ Cardinality(GenCalls) = 1
  /\ N >= 2
  /\ Len(calls) = 5

\* the build has resolved or rejected
Terminated == pc \in {"resolved", "rejected"}

\* C35: given that every remote call, disk operation and collaborator
\* eventually returns or fails, every build of a finite slide list eventually
\* terminates, resolved after the thumbnail step or rejected with an error;
\* it does not loop on a failing slide.
C35_BuildTerminates ==
  /\ <>Terminated
  /\ [](pc = "resolved" => thumbnails # "none" /\ error = "")
  /\ [](pc = "rejected" => error # "")

\* a build in which every slide after the anchor failed has resolved
C35_Witness ==
  /\ pc = "resolved"
  /\ N = 3
  /\ genFailed = {1, 2}
  /\ thumbnails = "saved"
  /\ Cardinality(GenCalls) = 3

====
